---- MODULE Spec2Model ----
(***************************************************************************)
(* Model of the dockerfiles generation tool (mberwanger/dockerfiles):      *)
(*   - workflow: buildJobsFromConfig, orderJobsByDependencies,             *)
(*     topologicalSort, generateJobID          (tool/internal/workflow)    *)
(*   - config:   ImageConfig.Merge, mergeInto, deepCopy, deepCopyValue     *)
(*   - config:   Load, loadFile, loadReader    (tool/internal/config)      *)
(*   - template: NewData, Data.fromImage, render (tool/internal/template)  *)
(*   - generator: GenerateImage                (tool/internal/generator)   *)
(* Strings whose characters matter (image names, version labels, job IDs,  *)
(* dependency keys) are sequences of one-character strings.                *)
(***************************************************************************)
EXTENDS Integers, Sequences, FiniteSets, TLC

VARIABLES
    \* ---- workflow generation (workflow.Generate) ----
    cfg,          \* the manifest: image name -> [Path, Versions]
    dockerfiles,  \* the file system: Dockerfile path -> referenced dependency keys
    pc,           \* position inside Generate
    jobs,         \* the []Job slice built by buildJobsFromConfig (Needs filled in later)
    ordered,      \* the job list returned by orderJobsByDependencies (NilJobs when nil)
    err,          \* the error returned by orderJobsByDependencies (NoErr when nil)
    workflowFile, \* the file at outputPath: <<>> while not written, else <<its job list>>
    \* ---- ImageConfig.Merge ----
    heap,         \* Go heap: address -> object (map, slice, BaseImage, ImageConfig)
    icPtr,        \* receiver of Merge (overlay): address of an ImageConfig or Nil
    defPtr,       \* argument of Merge (defaults): address of an ImageConfig or Nil
    resPtr,       \* value returned by Merge: address or Nil
    mpc,          \* position of the Merge scenario
    snapshot,     \* structural values of overlay, defaults and result right after Merge
    \* ---- template.Data ----
    dValues,          \* Data.Values
    rootPathIncluded, \* Data.rootPathIncluded
    lastCall,         \* the last fromImage call: argument, flag before, returned text
    calls,            \* number of fromImage calls made on this context
    argLines,         \* number of returned texts that hold an ARG REGISTRY= line
    errLines,         \* number of returned texts that begin with an # ERROR line
    \* ---- a call of one function: parseDockerfileDependencies,
    \*      generateJobID, loadReader ----
    input,            \* the argument of the call
    output,           \* the value returned
    fpc,              \* "idle", "start" (not yet called) or "done"
    \* ---- generator.GenerateImage ----
    manifest,         \* cfg.Defaults.Registry and cfg.Images[imageName] (pointers into heap)
    fsys,             \* the entries of the image's directory
    gen,              \* position and locals of GenerateImage
    renders,          \* per version rendered: the resolved configuration and the texts
    gen0              \* the manifest's configurations and the directory before the call

wfVars == <<cfg, dockerfiles, pc, jobs, ordered, err, workflowFile>>
mergeVars == <<heap, icPtr, defPtr, resPtr, mpc, snapshot>>
dataVars == <<dValues, rootPathIncluded, lastCall, calls, argLines, errLines>>
fnVars == <<input, output, fpc>>
genVars == <<manifest, fsys, gen, renders, gen0>>
vars == <<cfg, dockerfiles, pc, jobs, ordered, err, workflowFile,
          heap, icPtr, defPtr, resPtr, mpc, snapshot,
          dValues, rootPathIncluded, lastCall, calls, argLines, errLines,
          input, output, fpc,
          manifest, fsys, gen, renders, gen0>>

\* a nil pointer (heap addresses are positive)
Nil == 0
\* a nil error; every error value is a record with a kind
NoErr == [kind |-> "nil"]
IsErr(e) == e.kind # "nil"
\* a nil []Job: no elements
NilJobs == <<>>

(***************************************************************************)
(* Bounds of the model.                                                    *)
(***************************************************************************)
\* most (image, version) pairs a manifest of the model declares
MaxJobs == 3
\* most ${REGISTRY}/image:version references (to distinct images) the
\* Dockerfiles of one manifest hold together
MaxRefs == 3
\* most elements of a sequence value ([]interface{}) of an overlay
MaxLen == 1
\* most fromImage calls made on one Data context
MaxCalls == 3

(***************************************************************************)
(* Strings and sort.Strings.                                               *)
(***************************************************************************)
\* byte value of the characters the model uses
Code(c) ==
    CASE c = " " -> 32
      [] c = "-" -> 45
      [] c = "." -> 46
      [] c = "1" -> 49
      [] c = "2" -> 50
      [] c = ":" -> 58
      [] c = "B" -> 66
      [] c = "_" -> 95
      [] c = "a" -> 97
      [] c = "b" -> 98
      [] c = "d" -> 100
      [] c = "i" -> 105
      [] c = "l" -> 108
      [] c = "u" -> 117
      [] c = "x" -> 120

Letters == {"a", "b", "d", "i", "l", "u", "x", "B"}
Digits == {"1", "2"}

\* Go's string comparison s < t: bytewise lexicographic
RECURSIVE StrLess(_, _)
StrLess(s, t) ==
    IF t = <<>> THEN FALSE
    ELSE IF s = <<>> THEN TRUE
    ELSE IF Code(Head(s)) # Code(Head(t)) THEN Code(Head(s)) < Code(Head(t))
    ELSE StrLess(Tail(s), Tail(t))

\* sort.Strings applied to the distinct strings of S: ascending sequence
RECURSIVE SortStrings(_)
SortStrings(S) ==
    IF S = {} THEN <<>>
    ELSE LET m == CHOOSE x \in S : \A y \in S \ {x} : StrLess(x, y)
         IN <<m>> \o SortStrings(S \ {m})

(***************************************************************************)
(* workflow.generateJobID                                                  *)
(***************************************************************************)
\* the character class [a-zA-Z0-9_-]
IdChar(c) == c \in Letters \cup Digits \cup {"_", "-"}

\* mutant of ReplaceInvalid: every character is kept
ReplaceInvalidKeeps(s) == s

\* regexp [^a-zA-Z0-9_-] ReplaceAllString(id, "-")
ReplaceInvalid(s) == [i \in 1..Len(s) |-> IF IdChar(s[i]) THEN s[i] ELSE "-"]

\* mutant of CollapseDashes: runs of - are kept
CollapseNone(s) == s

\* regexp -+ ReplaceAllString(id, "-")
RECURSIVE CollapseDashes(_)
CollapseDashes(s) ==
    IF Len(s) < 2 THEN s
    ELSE IF s[1] = "-" /\ s[2] = "-" THEN CollapseDashes(Tail(s))
    ELSE <<s[1]>> \o CollapseDashes(Tail(s))

RECURSIVE TrimLeft(_)
TrimLeft(s) == IF s # <<>> /\ Head(s) = "-" THEN TrimLeft(Tail(s)) ELSE s

RECURSIVE TrimRight(_)
TrimRight(s) ==
    IF s # <<>> /\ s[Len(s)] = "-" THEN TrimRight(SubSeq(s, 1, Len(s) - 1)) ELSE s

\* strings.Trim(id, "-")
TrimDashes(s) == TrimRight(TrimLeft(s))

\* regexp ^[a-zA-Z_] MatchString(id)
StartsWithLetter(s) == s # <<>> /\ s[1] \in Letters \cup {"_"}

generateJobID(imageName, version) ==
    LET id == TrimDashes(CollapseDashes(ReplaceInvalid(imageName \o <<"-">> \o version)))
    IN IF ~StartsWithLetter(id) THEN <<"b", "u", "i", "l", "d", "-">> \o id ELSE id

(***************************************************************************)
(* workflow.buildJobsFromConfig                                            *)
(***************************************************************************)
\* fmt.Sprintf("%s:%s", imageName, version)
DepKey(imageName, version) == imageName \o <<":">> \o version

\* filepath.Join("images", image.Path, version, "Dockerfile")
DockerfilePathOf(path, version) == <<"images", path, version, "Dockerfile">>

\* the Job literal of buildJobsFromConfig; Needs is nil
NewJob(c, imageName, version) ==
    [ID |-> generateJobID(imageName, version),
     Name |-> <<"B", "u", "i", "l", "d", " ">> \o imageName \o <<":">> \o version,
     ImageName |-> imageName,
     Version |-> version,
     DockerfilePath |-> DockerfilePathOf(c[imageName].Path, version),
     Needs |-> <<>>]

\* mutant of VersionJobs: the versions are taken in descending order
VersionJobsDescending(c, imageName) ==
    LET versions == SortStrings(c[imageName].Versions)
    IN [i \in 1..Len(versions) |-> NewJob(c, imageName, versions[Len(versions) + 1 - i])]

\* the inner loop: one job per version of an image, versions sorted
VersionJobs(c, imageName) ==
    LET versions == SortStrings(c[imageName].Versions)
    IN [i \in 1..Len(versions) |-> NewJob(c, imageName, versions[i])]

RECURSIVE ImageJobs(_, _)
ImageJobs(c, imageNames) ==
    IF imageNames = <<>> THEN <<>>
    ELSE VersionJobs(c, Head(imageNames)) \o ImageJobs(c, Tail(imageNames))

buildJobsFromConfig(c) == ImageJobs(c, SortStrings(DOMAIN c))

\* mutant of parseDockerfileDependencies: a file that cannot be read has no
\* dependencies
parseDockerfileDependenciesLenient(fs, dockerfilePath) ==
    IF dockerfilePath \notin DOMAIN fs
    THEN [deps |-> <<>>, err |-> NoErr]
    ELSE [deps |-> SortStrings(fs[dockerfilePath]), err |-> NoErr]

(***************************************************************************)
(* workflow.parseDockerfileDependencies: the keys of the                   *)
(* ${REGISTRY}/image:version references of the file, deduplicated (the     *)
(* file is held as the set of those keys) and sorted; an unreadable file   *)
(* is an error.                                                            *)
(***************************************************************************)
parseDockerfileDependencies(fs, dockerfilePath) ==
    IF dockerfilePath \notin DOMAIN fs
    THEN [deps |-> <<>>, err |-> [kind |-> "reading Dockerfile", path |-> dockerfilePath]]
    ELSE [deps |-> SortStrings(fs[dockerfilePath]), err |-> NoErr]

(***************************************************************************)
(* workflow.topologicalSort                                                *)
(***************************************************************************)
\* jobMap[jobs[i].ID] = &jobs[i], in slice order: a later job of the same ID wins
JobMapByID(js) ==
    [id \in {js[i].ID : i \in 1..Len(js)} |->
        js[CHOOSE i \in 1..Len(js) :
              js[i].ID = id /\ \A k \in 1..Len(js) : js[k].ID = id => k <= i]]

CircularErr(jobID) == [kind |-> "circular dependency detected involving job", job |-> jobID]
\* jobMap[jobID] is a nil *Job when no job has that ID: job.Needs dereferences it
NilDeref == [kind |-> "panic: nil pointer dereference"]

\* the closure visit; st holds the captured sorted, visited, visiting and
\* the error being returned up the recursion
RECURSIVE visit(_, _, _)
RECURSIVE visitNeeds(_, _, _)
visitNeeds(jobMap, st, needs) ==
    IF needs = <<>> THEN st
    ELSE LET st1 == visit(jobMap, st, Head(needs))
         IN IF IsErr(st1.err) THEN st1 ELSE visitNeeds(jobMap, st1, Tail(needs))

\* mutant of visit: the job is appended before its dependencies are visited
visitAppendsFirst(jobMap, st, jobID) ==
    IF jobID \in st.visited THEN st
    ELSE IF jobID \in st.visiting THEN [st EXCEPT !.err = CircularErr(jobID)]
    ELSE IF jobID \notin DOMAIN jobMap THEN [st EXCEPT !.err = NilDeref]
    ELSE LET job == jobMap[jobID]
             st1 == visitNeeds(jobMap,
                               [st EXCEPT !.visiting = @ \cup {jobID},
                                          !.sorted = Append(@, job)],
                               job.Needs)
         IN IF IsErr(st1.err) THEN st1
            ELSE [st1 EXCEPT !.visiting = @ \ {jobID}, !.visited = @ \cup {jobID}]

visit(jobMap, st, jobID) ==
    IF jobID \in st.visited THEN st
    ELSE IF jobID \in st.visiting THEN [st EXCEPT !.err = CircularErr(jobID)]
    ELSE IF jobID \notin DOMAIN jobMap THEN [st EXCEPT !.err = NilDeref]
    ELSE LET job == jobMap[jobID]
             st1 == visitNeeds(jobMap, [st EXCEPT !.visiting = @ \cup {jobID}], job.Needs)
         IN IF IsErr(st1.err) THEN st1
            ELSE [st1 EXCEPT !.visiting = @ \ {jobID},
                             !.visited = @ \cup {jobID},
                             !.sorted = Append(@, job)]

\* the loop "Visit all jobs"
RECURSIVE visitAll(_, _, _)
\* mutant of visitAll: the error names the job the traversal started from
visitAllNamesStart(jobMap, st, js) ==
    IF js = <<>> THEN st
    ELSE LET st1 == visit(jobMap, st, Head(js).ID)
         IN IF IsErr(st1.err) THEN [st1 EXCEPT !.err = CircularErr(Head(js).ID)]
            ELSE visitAll(jobMap, st1, Tail(js))

visitAll(jobMap, st, js) ==
    IF js = <<>> THEN st
    ELSE LET st1 == visit(jobMap, st, Head(js).ID)
         IN IF IsErr(st1.err) THEN st1 ELSE visitAll(jobMap, st1, Tail(js))

topologicalSort(js) ==
    LET st == visitAll(JobMapByID(js),
                       [sorted |-> <<>>, visited |-> {}, visiting |-> {}, err |-> NoErr],
                       js)
    IN IF IsErr(st.err) THEN [sorted |-> NilJobs, err |-> st.err]
       ELSE [sorted |-> st.sorted, err |-> NoErr]

(***************************************************************************)
(* workflow.orderJobsByDependencies                                        *)
(***************************************************************************)
\* jobMap[key] = &jobs[i] keyed by "image:version": a later job of the same key wins
JobMapByKey(js) ==
    LET KeyOf(i) == DepKey(js[i].ImageName, js[i].Version)
    IN [key \in {KeyOf(i) : i \in 1..Len(js)} |->
           js[CHOOSE i \in 1..Len(js) :
                 KeyOf(i) = key /\ \A k \in 1..Len(js) : KeyOf(k) = key => k <= i]]

\* needs = the IDs of the jobs matching the dependency keys, in key order
RECURSIVE NeedsOf(_, _)
\* mutant of NeedsOf: only the first matching key gives a need
NeedsOfFirstOnly(jobMap, deps) ==
    LET Known(dep) == dep \in DOMAIN jobMap
        matching == SelectSeq(deps, Known)
    IN IF matching = <<>> THEN <<>> ELSE <<jobMap[matching[1]].ID>>

NeedsOf(jobMap, deps) ==
    IF deps = <<>> THEN <<>>
    ELSE (IF Head(deps) \in DOMAIN jobMap THEN <<jobMap[Head(deps)].ID>> ELSE <<>>)
         \o NeedsOf(jobMap, Tail(deps))

\* the loop over jobs: returns at the first Dockerfile that cannot be parsed
RECURSIVE AttachNeeds(_, _, _, _)
AttachNeeds(fs, jobMap, js, i) ==
    IF i > Len(js) THEN [jobs |-> js, err |-> NoErr]
    ELSE LET parsed == parseDockerfileDependencies(fs, js[i].DockerfilePath)
         IN IF IsErr(parsed.err)
            THEN [jobs |-> js,
                  err |-> [kind |-> "parsing dependencies for", job |-> js[i].Name,
                           cause |-> parsed.err]]
            ELSE AttachNeeds(fs, jobMap,
                             [js EXCEPT ![i].Needs = NeedsOf(jobMap, parsed.deps)], i + 1)

\* returns [jobs: the caller's slice after the call, sorted, err]
orderJobsByDependencies(fs, js) ==
    LET attached == AttachNeeds(fs, JobMapByKey(js), js, 1)
    IN IF IsErr(attached.err)
       THEN [jobs |-> attached.jobs, sorted |-> NilJobs, err |-> attached.err]
       ELSE LET r == topologicalSort(attached.jobs)
            IN IF IsErr(r.err)
               THEN [jobs |-> attached.jobs, sorted |-> NilJobs,
                     err |-> [kind |-> "sorting jobs", cause |-> r.err]]
               ELSE [jobs |-> attached.jobs, sorted |-> r.sorted, err |-> NoErr]

(***************************************************************************)
(* Workflow generation as a state machine: workflow.Generate up to the     *)
(* ordered job list.                                                       *)
(***************************************************************************)
\* image names and version labels of the manifests of the model; two of the
\* names differ only in a character outside [a-zA-Z0-9_-]
ImagePool == {<<"a", ".", "b">>, <<"a", "-", "b">>, <<"x">>}
VersionPool == {<<"1">>, <<"2">>}
\* the version labels an image of the pool may declare
VersionsFor(imageName) == IF imageName = <<"x">> THEN VersionPool ELSE {<<"1">>}
\* image.Path of an image of the pool
PathOf(imageName) ==
    CASE imageName = <<"a", ".", "b">> -> "dot"
      [] imageName = <<"a", "-", "b">> -> "dash"
      [] OTHER -> "x"
\* a reference to an image that is no job of the manifest
ExternalKey == <<"b", ":", "1">>

\* the (image, version) pairs the manifest declares
PairsOf(c) == {p \in (DOMAIN c) \X VersionPool : p[2] \in c[p[1]].Versions}

Manifests ==
    {c \in UNION {[I -> [Path : {"dot", "dash", "x"}, Versions : SUBSET VersionPool]] :
                     I \in SUBSET ImagePool} :
        /\ \A n \in DOMAIN c : c[n].Path = PathOf(n) /\ c[n].Versions \subseteq VersionsFor(n)
        /\ Cardinality(PairsOf(c)) <= MaxJobs}

KeysOf(c) == {DepKey(p[1], p[2]) : p \in PairsOf(c)} \cup {ExternalKey}
PathsOf(c) == {DockerfilePathOf(c[p[1]].Path, p[2]) : p \in PairsOf(c)}

\* the subsets of S of at most n elements
RECURSIVE SubsetsUpTo(_, _)
SubsetsUpTo(S, n) ==
    IF n = 0 THEN {{}}
    ELSE LET smaller == SubsetsUpTo(S, n - 1)
         IN smaller \cup {F \cup {x} : F \in smaller, x \in S}

\* the rendered Dockerfiles: some may be missing, and the present ones hold
\* at most MaxRefs references through ${REGISTRY} together
FileSystems(c) ==
    LET K == KeysOf(c)
    IN UNION {{[p \in P |-> {k \in K : <<p, k>> \in E}] : E \in SubsetsUpTo(P \X K, MaxRefs)} :
                 P \in SUBSET PathsOf(c)}

(***************************************************************************)
(* template.Data and Data.fromImage.  Texts are sequences of characters.   *)
(***************************************************************************)
TxtFrom == <<"F", "R", "O", "M", " ">>
TxtRegistryPath == <<"$", "{", "R", "E", "G", "I", "S", "T", "R", "Y", "}", "/">>
TxtArgRegistry == <<"A", "R", "G", " ", "R", "E", "G", "I", "S", "T", "R", "Y", "=">>
TxtNewline == <<"\n">>
TxtErrNotSet == <<"#", " ", "E", "R", "R", "O", "R", ":", " ", "r", "e", "g", "i", "s", "t", "r", "y", " ", "n", "o", "t", " ", "s", "e", "t", " ", "i", "n", " ", "c", "o", "n", "f", "i", "g">>
TxtErrNotString == <<"#", " ", "E", "R", "R", "O", "R", ":", " ", "r", "e", "g", "i", "s", "t", "r", "y", " ", "i", "s", " ", "n", "o", "t", " ", "a", " ", "s", "t", "r", "i", "n", "g">>
Dockerhub == <<"d", "o", "c", "k", "e", "r", "h", "u", "b">>
KeyRegistry == <<"r", "e", "g", "i", "s", "t", "r", "y">>
KeyName == "name"
KeySource == "source"

\* the interface{} values fromImage switches on: a string, a
\* *config.BaseImage, a map[string]interface{} (of which the entries name
\* and source matter: absent, a string or something else) and any other
\* value, held with its %v text
NoField == [present |-> FALSE, isStr |-> FALSE, s |-> <<>>]
StrField(x) == [present |-> TRUE, isStr |-> TRUE, s |-> x]
OtherField == [present |-> TRUE, isStr |-> FALSE, s |-> <<>>]
StringV(x) == [k |-> "string", s |-> x, Name |-> NoField, Source |-> NoField]
BaseImageV(name, source) ==
    [k |-> "BaseImage", s |-> <<>>, Name |-> StrField(name), Source |-> StrField(source)]
MapV(name, source) == [k |-> "map", s |-> <<>>, Name |-> name, Source |-> source]
OtherV(text) == [k |-> "other", s |-> text, Name |-> NoField, Source |-> NoField]

\* if x, ok := v[key].(string); ok { ... }: the string, else the zero value
FieldString(f) == IF f.isStr THEN f.s ELSE <<>>

\* mutant of FromLines: the registry declaration is decided before the
\* dockerhub test
FromLinesArgFirst(values, flag, imageName, imageSource) ==
    IF ~flag /\ KeyRegistry \in DOMAIN values /\ values[KeyRegistry].k = "string"
    THEN [out |-> TxtArgRegistry \o values[KeyRegistry].s \o TxtNewline
                  \o TxtFrom \o (IF imageSource = Dockerhub THEN <<>> ELSE TxtRegistryPath)
                  \o imageName,
          flag |-> TRUE, fatal |-> FALSE]
    ELSE [out |-> TxtFrom \o (IF imageSource = Dockerhub THEN <<>> ELSE TxtRegistryPath)
                  \o imageName,
          flag |-> flag, fatal |-> FALSE]

\* mutant of FromLines: the declaration is returned but the flag is not set
FromLinesKeepsFlag(values, flag, imageName, imageSource) ==
    IF imageSource = Dockerhub
    THEN [out |-> TxtFrom \o imageName, flag |-> flag, fatal |-> FALSE]
    ELSE IF flag
    THEN [out |-> TxtFrom \o TxtRegistryPath \o imageName, flag |-> flag, fatal |-> FALSE]
    ELSE IF KeyRegistry \notin DOMAIN values
    THEN [out |-> TxtErrNotSet \o TxtNewline \o TxtFrom \o TxtRegistryPath \o imageName,
          flag |-> flag, fatal |-> FALSE]
    ELSE IF values[KeyRegistry].k # "string"
    THEN [out |-> TxtErrNotString \o TxtNewline \o TxtFrom \o TxtRegistryPath \o imageName,
          flag |-> flag, fatal |-> FALSE]
    ELSE [out |-> TxtArgRegistry \o values[KeyRegistry].s \o TxtNewline
                  \o TxtFrom \o TxtRegistryPath \o imageName,
          flag |-> flag, fatal |-> FALSE]

\* mutant of FromLines: the flag is set on the error paths too
FromLinesErrSetsFlag(values, flag, imageName, imageSource) ==
    IF imageSource = Dockerhub
    THEN [out |-> TxtFrom \o imageName, flag |-> flag, fatal |-> FALSE]
    ELSE IF flag
    THEN [out |-> TxtFrom \o TxtRegistryPath \o imageName, flag |-> flag, fatal |-> FALSE]
    ELSE IF KeyRegistry \notin DOMAIN values
    THEN [out |-> TxtErrNotSet \o TxtNewline \o TxtFrom \o TxtRegistryPath \o imageName,
          flag |-> TRUE, fatal |-> FALSE]
    ELSE IF values[KeyRegistry].k # "string"
    THEN [out |-> TxtErrNotString \o TxtNewline \o TxtFrom \o TxtRegistryPath \o imageName,
          flag |-> TRUE, fatal |-> FALSE]
    ELSE [out |-> TxtArgRegistry \o values[KeyRegistry].s \o TxtNewline
                  \o TxtFrom \o TxtRegistryPath \o imageName,
          flag |-> TRUE, fatal |-> FALSE]

\* mutant of FromLines: a registry value of any type is formatted into the
\* declaration
FromLinesAnyRegistry(values, flag, imageName, imageSource) ==
    IF imageSource = Dockerhub
    THEN [out |-> TxtFrom \o imageName, flag |-> flag, fatal |-> FALSE]
    ELSE IF flag
    THEN [out |-> TxtFrom \o TxtRegistryPath \o imageName, flag |-> flag, fatal |-> FALSE]
    ELSE IF KeyRegistry \notin DOMAIN values
    THEN [out |-> TxtErrNotSet \o TxtNewline \o TxtFrom \o TxtRegistryPath \o imageName,
          flag |-> flag, fatal |-> FALSE]
    ELSE [out |-> TxtArgRegistry \o values[KeyRegistry].s \o TxtNewline
                  \o TxtFrom \o TxtRegistryPath \o imageName,
          flag |-> TRUE, fatal |-> FALSE]

\* fromImage, lines 80-111: the text for an image name and source, and the
\* flag after the call
FromLines(values, flag, imageName, imageSource) ==
    IF imageSource = Dockerhub
    THEN [out |-> TxtFrom \o imageName, flag |-> flag, fatal |-> FALSE]
    ELSE LET needsRegistryArg == imageSource # Dockerhub /\ ~flag
             needsRegistryPath == imageSource # Dockerhub
             imagePath == IF needsRegistryPath THEN TxtRegistryPath \o imageName
                          ELSE imageName
         IN IF needsRegistryArg
            THEN IF KeyRegistry \notin DOMAIN values
                 THEN [out |-> TxtErrNotSet \o TxtNewline \o TxtFrom \o imagePath,
                       flag |-> flag, fatal |-> FALSE]
                 ELSE IF values[KeyRegistry].k # "string"
                 THEN [out |-> TxtErrNotString \o TxtNewline \o TxtFrom \o imagePath,
                       flag |-> flag, fatal |-> FALSE]
                 ELSE [out |-> TxtArgRegistry \o values[KeyRegistry].s \o TxtNewline
                               \o TxtFrom \o imagePath,
                       flag |-> TRUE, fatal |-> FALSE]
            ELSE [out |-> TxtFrom \o imagePath, flag |-> flag, fatal |-> FALSE]

\* the recursion fromImage(d.Values[v]) of a string that is a key of
\* Values; active holds the keys of the calls that have not returned: a
\* key that repeats makes the same call again without end, and the
\* goroutine stack overflows (a fatal error, no text is returned)
RECURSIVE fromImageFrom(_, _, _, _)
\* mutant of fromImage: a string found under a key is taken as the image
\* name, without a further lookup
fromImageOneStep(values, flag, baseImage, active) ==
    IF baseImage.k = "string" /\ baseImage.s \in DOMAIN values
    THEN IF values[baseImage.s].k = "string"
         THEN FromLines(values, flag, values[baseImage.s].s, <<>>)
         ELSE fromImageFrom(values, flag, values[baseImage.s], active)
    ELSE FromLines(values, flag, (IF baseImage.k \in {"BaseImage", "map"} THEN FieldString(baseImage.Name) ELSE baseImage.s), 
             (IF baseImage.k \in {"BaseImage", "map"} THEN FieldString(baseImage.Source) ELSE <<>>))

fromImageFrom(values, flag, baseImage, active) ==
    CASE baseImage.k = "string" ->
            IF baseImage.s \in DOMAIN values
            THEN IF baseImage.s \in active
                 THEN [out |-> <<>>, flag |-> flag, fatal |-> TRUE]
                 ELSE fromImageFrom(values, flag, values[baseImage.s],
                                    active \cup {baseImage.s})
            ELSE FromLines(values, flag, baseImage.s, <<>>)
      [] baseImage.k = "BaseImage" ->
            FromLines(values, flag, baseImage.Name.s, baseImage.Source.s)
      [] baseImage.k = "map" ->
            FromLines(values, flag, FieldString(baseImage.Name), FieldString(baseImage.Source))
      [] OTHER ->
            FromLines(values, flag, baseImage.s, <<>>)

\* (d *Data) fromImage(baseImage interface{})
fromImage(values, flag, baseImage) == fromImageFrom(values, flag, baseImage, {})

\* the template function from_image of Data.functions
from_image(values, flag, arg) ==
    IF arg.k = "string" /\ arg.s \in DOMAIN values
    THEN fromImage(values, flag, values[arg.s])
    ELSE fromImage(values, flag, arg)

\* the returned text begins with the line ARG REGISTRY=...
HasArgLine(out) ==
    /\ Len(out) >= Len(TxtArgRegistry)
    /\ SubSeq(out, 1, Len(TxtArgRegistry)) = TxtArgRegistry

\* the returned text begins with an error annotation
HasErrLine(out) == Len(out) >= 7 /\ SubSeq(out, 1, 7) = SubSeq(TxtErrNotSet, 1, 7)

GenIdle ==
    /\ manifest = <<>> /\ fsys = <<>>
    /\ gen = [pc |-> "idle", todo |-> {}, imageDefaults |-> Nil, err |-> ""]
    /\ renders = <<>> /\ gen0 = <<>>

CallIdle ==
    /\ input = <<>> /\ output = <<>> /\ fpc = "idle"
    /\ GenIdle

NoCall ==
    [via |-> "none", ref |-> OtherV(<<>>), flagBefore |-> FALSE, out |-> <<>>, fatal |-> FALSE]

MergeIdle ==
    /\ heap = <<>> /\ icPtr = Nil /\ defPtr = Nil /\ resPtr = Nil
    /\ mpc = "idle" /\ snapshot = <<>>

DataIdle ==
    /\ dValues = <<>> /\ rootPathIncluded = FALSE /\ lastCall = NoCall /\ calls = 0
    /\ argLines = 0
    /\ errLines = 0

WorkflowIdle ==
    /\ cfg = <<>> /\ dockerfiles = <<>> /\ pc = "idle"
    /\ jobs = <<>> /\ ordered = NilJobs /\ err = NoErr
    /\ workflowFile = <<>>

Init ==
    /\ cfg \in Manifests
    /\ dockerfiles \in FileSystems(cfg)
    /\ pc = "start"
    /\ jobs = <<>>
    /\ ordered = NilJobs
    /\ err = NoErr
    /\ workflowFile = <<>>
    /\ MergeIdle
    /\ DataIdle
    /\ CallIdle

\* Generate, line 34: jobs, err := buildJobsFromConfig(cfg)
BuildJobs ==
    /\ pc = "start"
    /\ jobs' = buildJobsFromConfig(cfg)
    /\ pc' = "built"
    /\ UNCHANGED <<cfg, dockerfiles, ordered, err, workflowFile>>
    /\ UNCHANGED mergeVars
    /\ UNCHANGED dataVars
    /\ UNCHANGED fnVars
    /\ UNCHANGED genVars

\* Generate, line 39: orderedJobs, err := orderJobsByDependencies(jobs)
OrderJobs ==
    /\ pc = "built"
    /\ LET r == orderJobsByDependencies(dockerfiles, jobs)
       IN /\ jobs' = r.jobs
          /\ ordered' = r.sorted
          /\ err' = r.err
          /\ pc' = IF IsErr(r.err) THEN "failed" ELSE "ordered"
    /\ UNCHANGED <<cfg, dockerfiles, workflowFile>>
    /\ UNCHANGED mergeVars
    /\ UNCHANGED dataVars
    /\ UNCHANGED fnVars
    /\ UNCHANGED genVars

\* workflow.writeWorkflow: the file at outputPath is created and the template
\* is executed over the job list
writeWorkflow(js) == <<js>>

\* Generate, line 44: writeWorkflow(orderedJobs, outputPath), reached only
\* when neither of the two calls before it returned an error
WriteWorkflow ==
    /\ pc = "ordered"
    /\ workflowFile' = writeWorkflow(ordered)
    /\ pc' = "written"
    /\ UNCHANGED <<cfg, dockerfiles, jobs, ordered, err>>
    /\ UNCHANGED mergeVars
    /\ UNCHANGED dataVars
    /\ UNCHANGED fnVars
    /\ UNCHANGED genVars

Next == BuildJobs \/ OrderJobs \/ WriteWorkflow

Spec == Init /\ [][Next]_vars

(***************************************************************************)
(* The Needs graph of a job list: job i needs job k when the ID of k is in *)
(* the Needs of i.                                                         *)
(***************************************************************************)
Range(f) == {f[i] : i \in DOMAIN f}
NeedsEdge(js, i, k) == js[k].ID \in Range(js[i].Needs)
Successors(js, S) == {k \in 1..Len(js) : \E i \in S : NeedsEdge(js, i, k)}

RECURSIVE Closure(_, _)
Closure(js, S) ==
    LET T == S \cup Successors(js, S) IN IF T = S THEN S ELSE Closure(js, T)

\* the jobs job i reaches through one or more Needs edges
ReachablePlus(js, i) == Closure(js, Successors(js, {i}))
OnCycle(js, i) == i \in ReachablePlus(js, i)
HasCycle(js) == \E i \in 1..Len(js) : OnCycle(js, i)
DanglingNeeds(js) ==
    \E i \in 1..Len(js) : \E d \in Range(js[i].Needs) :
        \A k \in 1..Len(js) : js[k].ID # d
SortFailed == pc = "failed" /\ err.kind = "sorting jobs"

\* C1: whenever the sort succeeds, every job of the returned list comes
\* after every job whose ID is in its Needs: index(d) < index(j).
C1_DependenciesFirst ==
    pc = "ordered" =>
        \A i \in 1..Len(ordered) : \A d \in Range(ordered[i].Needs) :
            /\ \E k \in 1..Len(ordered) : ordered[k].ID = d
            /\ \A k \in 1..Len(ordered) : ordered[k].ID = d => k < i

\* C1 witness: a successful sort that had to move a dependency in front of
\* a job that was listed before it.
C1_Witness ==
    /\ pc = "ordered"
    /\ Len(ordered) = 3
    /\ \E i, k \in 1..Len(jobs) : i < k /\ NeedsEdge(jobs, i, k)
    /\ \E i \in 1..Len(ordered) : Len(ordered[i].Needs) = 2

\* C2: when building and sorting succeed, the ordered list holds exactly one
\* entry for each (image, version) pair of the manifest.
C2_ExactlyOncePerPair ==
    pc = "ordered" =>
        \A p \in PairsOf(cfg) :
            Cardinality({i \in 1..Len(ordered) :
                ordered[i].ImageName = p[1] /\ ordered[i].Version = p[2]}) = 1

\* C3: the sort fails with a circular-dependency error and a nil list
\* whenever the Needs graph has a cycle, and succeeds whenever the graph is
\* acyclic and every Needs entry names a job of the list.
C3_CycleIffError ==
    (pc = "ordered" \/ SortFailed) =>
        /\ HasCycle(jobs) =>
              /\ SortFailed
              /\ err.cause.kind = "circular dependency detected involving job"
              /\ ordered = NilJobs
        /\ (~HasCycle(jobs) /\ ~DanglingNeeds(jobs)) => pc = "ordered"

\* C4: the job ID named by a circular-dependency error is the ID of a job
\* that lies on a cycle of the Needs graph.
C4_NamedJobOnCycle ==
    (SortFailed /\ err.cause.kind = "circular dependency detected involving job") =>
        \E i \in 1..Len(jobs) : jobs[i].ID = err.cause.job /\ OnCycle(jobs, i)

\* C4 witness: the sort failed on a cycle that the first job leads into
\* without lying on it.
C4_Witness ==
    /\ SortFailed
    /\ err.cause.kind = "circular dependency detected involving job"
    /\ ~OnCycle(jobs, 1)
    /\ \E k \in ReachablePlus(jobs, 1) : OnCycle(jobs, k)
    /\ err.cause.job # jobs[1].ID

(***************************************************************************)
(* config.ImageConfig on a heap.  Maps, slices, BaseImage and ImageConfig  *)
(* are heap objects named by their address; an interface{} value is a      *)
(* scalar (a = Nil) or a reference to a map or a slice.                    *)
(***************************************************************************)
ScalarVal(x) == [a |-> Nil, s |-> x]
RefVal(addr) == [a |-> addr, s |-> ""]
\* the type switch of deepCopyValue and the type assertions of mergeInto
IsMapVal(h, val) == val.a # Nil /\ h[val.a].t = "map"
IsSliceVal(h, val) == val.a # Nil /\ h[val.a].t = "slice"

\* new(T): the object gets the next free address
Alloc(h, obj) == Append(h, obj)
\* m[k] = v on a Go map
MapSet(f, k, v) == [x \in DOMAIN f \cup {k} |-> IF x = k THEN v ELSE f[x]]

\* an order in which a range loop visits the keys of a map
RECURSIVE KeySeq(_)
KeySeq(S) ==
    IF S = {} THEN <<>>
    ELSE LET k == CHOOSE x \in S : TRUE IN <<k>> \o KeySeq(S \ {k})

RECURSIVE deepCopyValue(_, _)
RECURSIVE copyMapEntries(_, _, _, _)
RECURSIVE copySliceItems(_, _, _, _)

\* for k, v := range src { dst[k] = deepCopyValue(v) }
copyMapEntries(h, dst, src, keys) ==
    IF keys = <<>> THEN h
    ELSE LET r == deepCopyValue(h, h[src].m[Head(keys)])
         IN copyMapEntries([r.h EXCEPT ![dst].m = MapSet(@, Head(keys), r.v)],
                           dst, src, Tail(keys))

\* for i, item := range src { dst[i] = deepCopyValue(item) }
copySliceItems(h, dst, src, i) ==
    IF i > Len(h[src].l) THEN h
    ELSE LET r == deepCopyValue(h, h[src].l[i])
         IN copySliceItems([r.h EXCEPT ![dst].l[i] = r.v], dst, src, i + 1)

\* mutant of deepCopyValue: a nested map or slice is returned as it is
deepCopyValueShallow(h, val) == [h |-> h, v |-> val]

deepCopyValue(h, val) ==
    IF IsMapVal(h, val)
    THEN LET h1 == Alloc(h, [t |-> "map", m |-> <<>>])
         IN [h |-> copyMapEntries(h1, Len(h1), val.a, KeySeq(DOMAIN h[val.a].m)),
             v |-> RefVal(Len(h1))]
    ELSE IF IsSliceVal(h, val)
    THEN LET h1 == Alloc(h, [t |-> "slice",
                             l |-> [i \in 1..Len(h[val.a].l) |-> ScalarVal("nil")]])
         IN [h |-> copySliceItems(h1, Len(h1), val.a, 1), v |-> RefVal(Len(h1))]
    ELSE [h |-> h, v |-> val]

\* result.BaseImage = &BaseImage{Name: b.Name, Source: b.Source} on config res
CopyBaseImage(h, res, b) ==
    LET h1 == Alloc(h, [t |-> "BaseImage", Name |-> h[b].Name, Source |-> h[b].Source])
    IN [h1 EXCEPT ![res].BaseImage = Len(h1)]

\* result := &ImageConfig{Values: make(map[string]interface{})}
NewImageConfig(h) ==
    LET h1 == Alloc(h, [t |-> "map", m |-> <<>>])
        h2 == Alloc(h1, [t |-> "ImageConfig", BaseImage |-> Nil, Values |-> Len(h1)])
    IN [h |-> h2, p |-> Len(h2)]

\* for k, v := range c.Values { result.Values[k] = deepCopyValue(v) }
CopyValuesInto(h, res, c) ==
    IF h[c].Values = Nil THEN h
    ELSE copyMapEntries(h, h[res].Values, h[c].Values, KeySeq(DOMAIN h[h[c].Values].m))

\* mutant of deepCopy: the copy has no base-image descriptor
deepCopyDropsBaseImage(h, ic) ==
    IF ic = Nil THEN [h |-> h, p |-> Nil]
    ELSE LET n == NewImageConfig(h)
         IN [h |-> CopyValuesInto(n.h, n.p, ic), p |-> n.p]

\* mutant of deepCopy: a nil receiver gives an empty configuration
deepCopyNilGivesEmpty(h, ic) ==
    IF ic = Nil THEN NewImageConfig(h)
    ELSE LET n == NewImageConfig(h)
             h1 == IF h[ic].BaseImage # Nil
                   THEN CopyBaseImage(n.h, n.p, h[ic].BaseImage) ELSE n.h
         IN [h |-> CopyValuesInto(h1, n.p, ic), p |-> n.p]

\* (ic *ImageConfig) deepCopy()
deepCopy(h, ic) ==
    IF ic = Nil THEN [h |-> h, p |-> Nil]
    ELSE LET n == NewImageConfig(h)
             h1 == IF h[ic].BaseImage # Nil
                   THEN CopyBaseImage(n.h, n.p, h[ic].BaseImage) ELSE n.h
         IN [h |-> CopyValuesInto(h1, n.p, ic), p |-> n.p]

RECURSIVE mergeInto(_, _, _)
RECURSIVE mergeKeys(_, _, _, _)

\* the body of the range loop of mergeInto
mergeKeys(h, dest, source, keys) ==
    IF keys = <<>> THEN h
    ELSE LET k == Head(keys)
             srcVal == h[source].m[k]
         IN IF /\ k \in DOMAIN h[dest].m
               /\ IsMapVal(h, h[dest].m[k])
               /\ IsMapVal(h, srcVal)
            THEN mergeKeys(mergeInto(h, h[dest].m[k].a, srcVal.a), dest, source, Tail(keys))
            ELSE LET r == deepCopyValue(h, srcVal)
                 IN mergeKeys([r.h EXCEPT ![dest].m = MapSet(@, k, r.v)],
                              dest, source, Tail(keys))

\* mutant of mergeInto: every key of source replaces the key of dest
mergeIntoReplaces(h, dest, source) ==
    IF source = Nil THEN h
    ELSE copyMapEntries(h, dest, source, KeySeq(DOMAIN h[source].m))

\* mergeInto(dest, source); a nil source map has no keys
mergeInto(h, dest, source) ==
    IF source = Nil THEN h
    ELSE mergeKeys(h, dest, source, KeySeq(DOMAIN h[source].m))

\* mutant of MergeBaseImage: an empty Source of the overlay's descriptor
\* is filled from the defaults' descriptor
MergeBaseImageFieldwise(h, ic, defaults) ==
    IF h[ic].BaseImage # Nil
    THEN IF h[h[ic].BaseImage].Source = "" /\ h[defaults].BaseImage # Nil
         THEN Alloc(h, [t |-> "BaseImage", Name |-> h[h[ic].BaseImage].Name,
                        Source |-> h[h[defaults].BaseImage].Source])
         ELSE Alloc(h, h[h[ic].BaseImage])
    ELSE IF h[defaults].BaseImage # Nil THEN Alloc(h, h[h[defaults].BaseImage])
    ELSE h

\* Merge, lines 86-96: the heap after the descriptor of the result, if any,
\* was allocated (it is the last object then)
MergeBaseImage(h, ic, defaults) ==
    IF h[ic].BaseImage # Nil
    THEN Alloc(h, [t |-> "BaseImage", Name |-> h[h[ic].BaseImage].Name,
                   Source |-> h[h[ic].BaseImage].Source])
    ELSE IF h[defaults].BaseImage # Nil
    THEN Alloc(h, [t |-> "BaseImage", Name |-> h[h[defaults].BaseImage].Name,
                   Source |-> h[h[defaults].BaseImage].Source])
    ELSE h

\* (ic *ImageConfig) Merge(defaults *ImageConfig)
Merge(h, ic, defaults) ==
    IF defaults = Nil THEN deepCopy(h, ic)
    ELSE IF ic = Nil THEN deepCopy(h, defaults)
    ELSE LET n == NewImageConfig(h)
             hb == MergeBaseImage(n.h, ic, defaults)
             h1 == IF Len(hb) > Len(n.h) THEN [hb EXCEPT ![n.p].BaseImage = Len(hb)] ELSE hb
             h2 == CopyValuesInto(h1, n.p, defaults)
         IN [h |-> mergeInto(h2, h2[n.p].Values, h2[ic].Values), p |-> n.p]

(***************************************************************************)
(* Overlays as trees (their structure, without addresses), the overlays    *)
(* the model merges, and their construction on the heap.                   *)
(***************************************************************************)
TScalar(x) == [t |-> "scalar", v |-> x, m |-> <<>>, l |-> <<>>]
TMap(f) == [t |-> "map", v |-> "", m |-> f, l |-> <<>>]
TSlice(q) == [t |-> "slice", v |-> "", m |-> <<>>, l |-> q]

Keys == {"a", "b"}
SeqsUpTo(S, n) == UNION {[1..k -> S] : k \in 0..n}

\* values of nesting depth 0, 1 and 2 whose scalars are all x
Depth0(x) == {TScalar(x)}
Depth1(x) ==
    Depth0(x)
    \cup {TMap(f) : f \in UNION {[K -> Depth0(x)] : K \in SUBSET Keys}}
    \cup {TSlice(q) : q \in SeqsUpTo(Depth0(x), MaxLen)}
Depth2(x) ==
    Depth1(x)
    \cup {TMap([k \in {"a"} |-> y]) : y \in Depth1(x) \ Depth0(x)}
    \cup {TSlice(<<y>>) : y \in Depth1(x) \ Depth0(x)}

NoBaseImage == [present |-> FALSE, Name |-> "", Source |-> ""]
AbsentConfig == [nil |-> TRUE, base |-> NoBaseImage, hasValues |-> FALSE, values |-> <<>>]

\* named values: key "a" holds any value of depth up to 2, key "b" a scalar
ValueMaps(x) ==
    {f \in UNION {[K -> Depth2(x)] : K \in SUBSET Keys} :
        "b" \in DOMAIN f => f["b"] \in Depth0(x)}

\* the overlays whose scalars are x and whose descriptor, if any, is b; the
\* last ones have a nil Values map
ConfigTrees(x, b) ==
    {[nil |-> FALSE, base |-> d, hasValues |-> TRUE, values |-> f] :
        d \in {NoBaseImage, b}, f \in ValueMaps(x)}
    \cup {[nil |-> FALSE, base |-> d, hasValues |-> FALSE, values |-> <<>>] :
             d \in {NoBaseImage, b}}

\* version overlays (receiver of Merge) and image defaults (its argument)
OverlayTrees ==
    {AbsentConfig} \cup ConfigTrees("o", [present |-> TRUE, Name |-> "ubuntu", Source |-> ""])
DefaultsTrees ==
    {AbsentConfig}
    \cup ConfigTrees("d", [present |-> TRUE, Name |-> "alpine", Source |-> "dockerhub"])

RECURSIVE BuildValue(_, _)
RECURSIVE BuildMapEntries(_, _, _, _)
RECURSIVE BuildSliceItems(_, _, _, _)
BuildMapEntries(h, dst, f, keys) ==
    IF keys = <<>> THEN h
    ELSE LET r == BuildValue(h, f[Head(keys)])
         IN BuildMapEntries([r.h EXCEPT ![dst].m = MapSet(@, Head(keys), r.v)],
                            dst, f, Tail(keys))
BuildSliceItems(h, dst, q, i) ==
    IF i > Len(q) THEN h
    ELSE LET r == BuildValue(h, q[i])
         IN BuildSliceItems([r.h EXCEPT ![dst].l = Append(@, r.v)], dst, q, i + 1)
\* the heap holding tree tr, and the interface{} value standing for it
BuildValue(h, tr) ==
    IF tr.t = "map"
    THEN LET h1 == Alloc(h, [t |-> "map", m |-> <<>>])
         IN [h |-> BuildMapEntries(h1, Len(h1), tr.m, KeySeq(DOMAIN tr.m)),
             v |-> RefVal(Len(h1))]
    ELSE IF tr.t = "slice"
    THEN LET h1 == Alloc(h, [t |-> "slice", l |-> <<>>])
         IN [h |-> BuildSliceItems(h1, Len(h1), tr.l, 1), v |-> RefVal(Len(h1))]
    ELSE [h |-> h, v |-> ScalarVal(tr.v)]

\* the heap holding the overlay c, and the pointer to it
BuildConfig(h, c) ==
    IF c.nil THEN [h |-> h, p |-> Nil]
    ELSE LET hb == IF c.base.present
                   THEN Alloc(h, [t |-> "BaseImage", Name |-> c.base.Name,
                                  Source |-> c.base.Source])
                   ELSE h
             b == IF c.base.present THEN Len(hb) ELSE Nil
             rv == IF c.hasValues THEN BuildValue(hb, TMap(c.values))
                   ELSE [h |-> hb, v |-> RefVal(Nil)]
             h2 == Alloc(rv.h, [t |-> "ImageConfig", BaseImage |-> b, Values |-> rv.v.a])
         IN [h |-> h2, p |-> Len(h2)]

\* the tree of an interface{} value of the heap
RECURSIVE TreeOfValue(_, _)
TreeOfValue(h, val) ==
    IF IsMapVal(h, val)
    THEN TMap([k \in DOMAIN h[val.a].m |-> TreeOfValue(h, h[val.a].m[k])])
    ELSE IF IsSliceVal(h, val)
    THEN TSlice([i \in 1..Len(h[val.a].l) |-> TreeOfValue(h, h[val.a].l[i])])
    ELSE TScalar(val.s)

\* the descriptor and the named values of the configuration p points to
\* (as the tests' imageConfigEqual compares them)
TreeOfConfig(h, p) ==
    IF p = Nil THEN [nil |-> TRUE, base |-> NoBaseImage, values |-> <<>>]
    ELSE [nil |-> FALSE,
          base |-> IF h[p].BaseImage = Nil THEN NoBaseImage
                   ELSE [present |-> TRUE, Name |-> h[h[p].BaseImage].Name,
                         Source |-> h[h[p].BaseImage].Source],
          values |-> IF h[p].Values = Nil THEN <<>>
                     ELSE TreeOfValue(h, RefVal(h[p].Values)).m]

\* the heap objects reachable from an interface{} value / from a configuration
RECURSIVE ReachOfValue(_, _)
ReachOfValue(h, val) ==
    IF val.a = Nil THEN {}
    ELSE {val.a} \cup
         UNION {ReachOfValue(h, x) :
                   x \in IF h[val.a].t = "map" THEN Range(h[val.a].m) ELSE Range(h[val.a].l)}
ReachOfConfig(h, p) ==
    IF p = Nil THEN {}
    ELSE {p} \cup (IF h[p].BaseImage = Nil THEN {} ELSE {h[p].BaseImage})
             \cup ReachOfValue(h, RefVal(h[p].Values))

(***************************************************************************)
(* Merge as a state machine: one call of overlay.Merge(defaults), then a   *)
(* caller changes an object of an input or of the result in place.         *)
(***************************************************************************)
\* the heaps after one in-place change of object a
Mutations(h, a) ==
    CASE h[a].t = "map" ->
            {[h EXCEPT ![a].m = MapSet(@, k, ScalarVal("changed"))] :
                k \in Keys \cup {"test_key"}}
      [] h[a].t = "slice" ->
            {[h EXCEPT ![a].l[i] = ScalarVal("changed")] : i \in 1..Len(h[a].l)}
      [] h[a].t = "BaseImage" ->
            {[h EXCEPT ![a].Name = "changed"], [h EXCEPT ![a].Source = "changed"]}
      [] OTHER ->
            {[h EXCEPT ![a].BaseImage = Nil]}

InitMerge ==
    /\ \E o \in OverlayTrees, d \in DefaultsTrees :
          LET bo == BuildConfig(<<>>, o)
              bd == BuildConfig(bo.h, d)
          IN /\ heap = bd.h
             /\ icPtr = bo.p
             /\ defPtr = bd.p
             /\ snapshot = [heap0 |-> bd.h,
                            ic |-> TreeOfConfig(bd.h, bo.p),
                            def |-> TreeOfConfig(bd.h, bd.p),
                            res |-> TreeOfConfig(bd.h, Nil)]
    /\ resPtr = Nil
    /\ mpc = "start"
    /\ WorkflowIdle
    /\ DataIdle
    /\ CallIdle

\* result := overlay.Merge(defaults)
CallMerge ==
    /\ mpc = "start"
    /\ LET r == Merge(heap, icPtr, defPtr)
       IN /\ heap' = r.h
          /\ resPtr' = r.p
          /\ snapshot' = [snapshot EXCEPT !.res = TreeOfConfig(r.h, r.p)]
    /\ mpc' = "merged"
    /\ UNCHANGED <<icPtr, defPtr>>
    /\ UNCHANGED wfVars
    /\ UNCHANGED dataVars
    /\ UNCHANGED fnVars
    /\ UNCHANGED genVars

\* after the call, the caller changes an object it reaches from an input
MutateInput ==
    /\ mpc = "merged"
    /\ \E a \in ReachOfConfig(heap, icPtr) \cup ReachOfConfig(heap, defPtr) :
          \E h \in Mutations(heap, a) : heap' = h
    /\ mpc' = "inputChanged"
    /\ UNCHANGED <<icPtr, defPtr, resPtr, snapshot>>
    /\ UNCHANGED wfVars
    /\ UNCHANGED dataVars
    /\ UNCHANGED fnVars
    /\ UNCHANGED genVars

\* after the call, the caller changes an object it reaches from the result
MutateResult ==
    /\ mpc = "merged"
    /\ \E a \in ReachOfConfig(heap, resPtr) :
          \E h \in Mutations(heap, a) : heap' = h
    /\ mpc' = "resultChanged"
    /\ UNCHANGED <<icPtr, defPtr, resPtr, snapshot>>
    /\ UNCHANGED wfVars
    /\ UNCHANGED dataVars
    /\ UNCHANGED fnVars
    /\ UNCHANGED genVars

NextMerge == CallMerge \/ MutateInput \/ MutateResult

SpecMerge == InitMerge /\ [][NextMerge]_vars

(***************************************************************************)
(* Properties of Merge.                                                    *)
(***************************************************************************)
\* the recursive merge of named values o (overlay) over d (defaults)
RECURSIVE TreeMerge(_, _)
TreeMerge(o, d) ==
    [k \in DOMAIN o \cup DOMAIN d |->
        IF k \notin DOMAIN o THEN d[k]
        ELSE IF k \notin DOMAIN d THEN o[k]
        ELSE IF o[k].t = "map" /\ d[k].t = "map" THEN TMap(TreeMerge(o[k].m, d[k].m))
        ELSE o[k]]

BothPresent == icPtr # Nil /\ defPtr # Nil
Merged == mpc # "start"
\* the objects of the heap the inputs were built in
OldObjects == 1..Len(snapshot.heap0)

\* C5: for two present overlays the named values of the result are the
\* recursive merge of the overlay's values over the defaults' values: a key
\* of one side keeps its value, two mappings under one key are merged
\* recursively, and in every other case the overlay's value replaces the
\* default's value.
C5_ValuesAreRecursiveMerge ==
    (Merged /\ BothPresent) =>
        snapshot.res.values = TreeMerge(snapshot.ic.values, snapshot.def.values)

\* C5 witness: both sides hold a mapping under "a" with a common key and a
\* key of the defaults only, and "b" is a mapping on no side but present
\* on the overlay's side only.
C5_Witness ==
    /\ mpc = "merged" /\ BothPresent
    /\ "a" \in DOMAIN snapshot.ic.values /\ "a" \in DOMAIN snapshot.def.values
    /\ snapshot.ic.values["a"].t = "map" /\ snapshot.def.values["a"].t = "map"
    /\ DOMAIN snapshot.ic.values["a"].m = {"a"}
    /\ DOMAIN snapshot.def.values["a"].m = {"a", "b"}
    /\ "b" \in DOMAIN snapshot.ic.values /\ "b" \notin DOMAIN snapshot.def.values
    /\ snapshot.res.values["a"].m["a"] = TScalar("o")
    /\ snapshot.res.values["a"].m["b"] = TScalar("d")

\* C6: X.Merge(absent) and absent.Merge(X) are deep copies of X: a new
\* configuration with the same descriptor and the same named values.
C6_MergeIdentity ==
    Merged =>
        /\ (icPtr # Nil /\ defPtr = Nil) =>
              /\ snapshot.res = snapshot.ic
              /\ resPtr \notin OldObjects
        /\ (icPtr = Nil /\ defPtr # Nil) =>
              /\ snapshot.res = snapshot.def
              /\ resPtr \notin OldObjects

\* C6 witness: an overlay with a descriptor and a nested mapping was merged
\* with absent defaults.
C6_Witness ==
    /\ mpc = "merged" /\ icPtr # Nil /\ defPtr = Nil
    /\ snapshot.ic.base.present
    /\ "a" \in DOMAIN snapshot.ic.values
    /\ snapshot.ic.values["a"].t = "map"
    /\ "a" \in DOMAIN snapshot.ic.values["a"].m

C8_BaseImageWholesale ==
    Merged =>
        snapshot.res.base =
            IF snapshot.ic.base.present THEN snapshot.ic.base
            ELSE IF snapshot.def.base.present THEN snapshot.def.base
            ELSE NoBaseImage

\* C8 witness: the overlay's descriptor has an empty origin tag and the
\* defaults' descriptor has the tag dockerhub.
C8_Witness ==
    /\ mpc = "merged" /\ BothPresent
    /\ snapshot.ic.base.present /\ snapshot.ic.base.Source = ""
    /\ snapshot.def.base.present /\ snapshot.def.base.Source = "dockerhub"
    /\ snapshot.res.base.Source = ""

\* C9 (as stated): with overlay and defaults both absent Merge returns an
\* empty configuration, not an absent one.
C9_BothAbsentGivesEmpty ==
    (mpc = "merged" /\ icPtr = Nil /\ defPtr = Nil) =>
        /\ resPtr # Nil
        /\ snapshot.res.values = <<>>
        /\ ~snapshot.res.base.present

\* C9 (amended): with overlay and defaults both absent Merge returns an
\* absent (nil) configuration.
C9_BothAbsentGivesAbsent ==
    (mpc = "merged" /\ icPtr = Nil /\ defPtr = Nil) => resPtr = Nil /\ snapshot.res.nil

\* C9 witness: Merge was called with both sides absent.
C9_Witness == mpc = "merged" /\ icPtr = Nil /\ defPtr = Nil /\ heap = <<>>

(***************************************************************************)
(* A Data context as a state machine: NewData, then calls of fromImage     *)
(* and of the template function from_image.                                *)
(***************************************************************************)
\* image names: one with a version part, one without
NamePool == {<<"u", ":", "1">>, <<"c">>}
\* keys of Values other than registry
EntryKeys == {<<"k">>, <<"j">>}

\* values an entry of Values holds: a string (a key or an image name) or a
\* descriptor
EntryValues ==
    {StringV(x) : x \in EntryKeys \cup {<<"c">>}}
    \cup {BaseImageV(<<"u", ":", "1">>, src) : src \in {<<>>, Dockerhub}}
    \cup {MapV(StrField(<<"c">>), StrField(Dockerhub)), MapV(StrField(<<"c">>), NoField)}

\* values of the entry registry: a string, or a number
RegistryValues == {StringV(<<"r">>), OtherV(<<"1">>)}

\* arguments of fromImage
RefPool ==
    {StringV(x) : x \in EntryKeys \cup NamePool}
    \cup {BaseImageV(n, src) : n \in NamePool, src \in {<<>>, Dockerhub}}
    \cup {MapV(StrField(n), src) : n \in NamePool, src \in {NoField, StrField(Dockerhub)}}
    \cup {MapV(OtherField, StrField(Dockerhub)), MapV(StrField(<<"c">>), OtherField)}
    \cup {OtherV(<<"4", "2">>)}

\* the Values maps NewData builds
DataValues ==
    UNION {[K -> EntryValues \cup RegistryValues] : K \in SUBSET (EntryKeys \cup {KeyRegistry})}
    \ {f \in UNION {[K -> EntryValues \cup RegistryValues] :
                       K \in SUBSET (EntryKeys \cup {KeyRegistry})} :
          \E k \in DOMAIN f : (k = KeyRegistry) # (f[k] \in RegistryValues)}

\* NewData: rootPathIncluded is false
InitData ==
    /\ dValues \in DataValues
    /\ rootPathIncluded = FALSE
    /\ lastCall = NoCall
    /\ calls = 0
    /\ argLines = 0
    /\ errLines = 0
    /\ CallIdle
    /\ WorkflowIdle
    /\ MergeIdle

\* d.fromImage(ref)
CallFromImage ==
    /\ calls < MaxCalls
    /\ ~lastCall.fatal
    /\ \E ref \in RefPool :
          LET r == fromImage(dValues, rootPathIncluded, ref)
          IN /\ rootPathIncluded' = r.flag
             /\ lastCall' = [via |-> "fromImage", ref |-> ref, flagBefore |-> rootPathIncluded,
                             out |-> r.out, fatal |-> r.fatal]
             /\ argLines' = IF HasArgLine(r.out) THEN argLines + 1 ELSE argLines
             /\ errLines' = IF HasErrLine(r.out) THEN errLines + 1 ELSE errLines
    /\ calls' = calls + 1
    /\ UNCHANGED dValues
    /\ UNCHANGED wfVars
    /\ UNCHANGED mergeVars
    /\ UNCHANGED fnVars
    /\ UNCHANGED genVars

\* {{from_image ref}} in a template
CallTemplateFromImage ==
    /\ calls < MaxCalls
    /\ ~lastCall.fatal
    /\ \E ref \in RefPool :
          LET r == from_image(dValues, rootPathIncluded, ref)
          IN /\ rootPathIncluded' = r.flag
             /\ lastCall' = [via |-> "from_image", ref |-> ref, flagBefore |-> rootPathIncluded,
                             out |-> r.out, fatal |-> r.fatal]
             /\ argLines' = IF HasArgLine(r.out) THEN argLines + 1 ELSE argLines
             /\ errLines' = IF HasErrLine(r.out) THEN errLines + 1 ELSE errLines
    /\ calls' = calls + 1
    /\ UNCHANGED dValues
    /\ UNCHANGED wfVars
    /\ UNCHANGED mergeVars
    /\ UNCHANGED fnVars
    /\ UNCHANGED genVars

NextData == CallFromImage \/ CallTemplateFromImage

SpecData == InitData /\ [][NextData]_vars

IsDescriptor(v) == v.k \in {"BaseImage", "map"}

\* C10: for a descriptor whose origin tag is dockerhub, fromImage returns
\* exactly FROM <name>, with no ARG line and no ${REGISTRY} path, whatever
\* the flag, the registry value and the position of the call, and leaves
\* the flag unchanged.
C10_DockerhubPlainFrom ==
    (calls > 0 /\ IsDescriptor(lastCall.ref) /\ lastCall.ref.Source = StrField(Dockerhub)) =>
        /\ ~lastCall.fatal
        /\ lastCall.out = TxtFrom \o FieldString(lastCall.ref.Name)
        /\ rootPathIncluded = lastCall.flagBefore

\* C10 witnesses: a dockerhub descriptor resolved as the first call with a
\* registry string present and the flag unset, and as a later call with
\* the flag set.
C10_Witness ==
    /\ calls = 1 /\ ~lastCall.flagBefore /\ lastCall.via = "fromImage"
    /\ KeyRegistry \in DOMAIN dValues /\ dValues[KeyRegistry].k = "string"
    /\ lastCall.ref = BaseImageV(<<"u", ":", "1">>, Dockerhub)
    /\ lastCall.out = TxtFrom \o <<"u", ":", "1">>

\* the value a reference stands for: string entries of Values are followed
\* key by key, for at most n steps; ok is FALSE when the steps run out
RECURSIVE TerminalAfter(_, _, _)
TerminalAfter(values, v, n) ==
    IF v.k = "string" /\ v.s \in DOMAIN values
    THEN IF n = 0 THEN [ok |-> FALSE, v |-> v]
         ELSE TerminalAfter(values, values[v.s], n - 1)
    ELSE [ok |-> TRUE, v |-> v]

\* the terminal value of the last call's argument
LastTerminal == TerminalAfter(dValues, lastCall.ref, Cardinality(DOMAIN dValues))

\* image name and origin tag a terminal value stands for
ImageNameOf(v) == IF v.k \in {"BaseImage", "map"} THEN FieldString(v.Name) ELSE v.s
ImageSourceOf(v) == IF v.k \in {"BaseImage", "map"} THEN FieldString(v.Source) ELSE <<>>

RegistryIsString == KeyRegistry \in DOMAIN dValues /\ dValues[KeyRegistry].k = "string"

\* the last call resolved to an image that is not a dockerhub image
NonDockerhubCall ==
    calls > 0 /\ LastTerminal.ok /\ ImageSourceOf(LastTerminal.v) # Dockerhub

\* C11: on a context whose registry value is a string, a call that resolves
\* to a non-dockerhub image with the flag unset returns ARG REGISTRY=<registry>
\* followed by FROM ${REGISTRY}/<name> and sets the flag; with the flag set
\* it returns only FROM ${REGISTRY}/<name>; no call resets the flag, the flag
\* is set exactly when an ARG line has been returned, and at most one
\* returned text of the context holds an ARG line.
C11_ArgOncePerContext ==
    RegistryIsString =>
        /\ NonDockerhubCall =>
              /\ ~lastCall.fatal
              /\ rootPathIncluded
              /\ lastCall.out =
                    (IF lastCall.flagBefore THEN <<>>
                     ELSE TxtArgRegistry \o dValues[KeyRegistry].s \o TxtNewline)
                    \o TxtFrom \o TxtRegistryPath \o ImageNameOf(LastTerminal.v)
        /\ lastCall.flagBefore => rootPathIncluded
        /\ argLines <= 1
        /\ rootPathIncluded = (argLines = 1)

\* C11 witness: the third call of a context, non-dockerhub like an earlier
\* one that returned the ARG line, returns the FROM line alone.
C11_Witness ==
    /\ RegistryIsString /\ calls = 3 /\ NonDockerhubCall
    /\ lastCall.flagBefore /\ argLines = 1
    /\ lastCall.ref = BaseImageV(<<"u", ":", "1">>, <<>>)
    /\ lastCall.out = TxtFrom \o TxtRegistryPath \o <<"u", ":", "1">>

\* C12: a non-dockerhub resolution with the flag unset returns, when the
\* registry value is missing, # ERROR: registry not set in config followed
\* by FROM ${REGISTRY}/<name>, and when the registry value is not a string,
\* # ERROR: registry is not a string followed by the same FROM line; the
\* call returns (it does not abort) and the text holds no ARG line.
C12_RegistryErrorsInline ==
    (NonDockerhubCall /\ ~lastCall.flagBefore /\ ~RegistryIsString) =>
        /\ ~lastCall.fatal
        /\ lastCall.out =
              (IF KeyRegistry \notin DOMAIN dValues THEN TxtErrNotSet ELSE TxtErrNotString)
              \o TxtNewline \o TxtFrom \o TxtRegistryPath \o ImageNameOf(LastTerminal.v)
        /\ ~HasArgLine(lastCall.out)
        /\ argLines = 0

\* C12 witness: the registry value is a number and a literal image name is
\* resolved.
C12_Witness ==
    /\ KeyRegistry \in DOMAIN dValues /\ dValues[KeyRegistry].k = "other"
    /\ calls = 2 /\ NonDockerhubCall /\ ~lastCall.flagBefore
    /\ lastCall.ref = StringV(<<"u", ":", "1">>)
    /\ lastCall.out = TxtErrNotString \o TxtNewline \o TxtFrom \o TxtRegistryPath
                         \o <<"u", ":", "1">>

EndsWith(text, suffix) ==
    /\ Len(text) >= Len(suffix)
    /\ SubSeq(text, Len(text) - Len(suffix) + 1, Len(text)) = suffix

\* C13: for a string reference, fromImage follows string entries of Values
\* key by key to the first value that is a descriptor or a string that is
\* not a key, and returns the text (and leaves the flag) that resolving
\* that terminal value directly gives; a terminal string is used as the
\* image name with no origin tag: FROM ${REGISTRY}/<string>.
C13_StringFollowsKeys ==
    (calls > 0 /\ lastCall.ref.k = "string" /\ LastTerminal.ok) =>
        /\ ~lastCall.fatal
        /\ lastCall.out = fromImage(dValues, lastCall.flagBefore, LastTerminal.v).out
        /\ rootPathIncluded = fromImage(dValues, lastCall.flagBefore, LastTerminal.v).flag
        /\ LastTerminal.v.k = "string" =>
              EndsWith(lastCall.out, TxtFrom \o TxtRegistryPath \o LastTerminal.v.s)

\* C13 witness: a key that names a key that names a literal image name.
C13_Witness ==
    /\ DOMAIN dValues = {<<"k">>, <<"j">>, KeyRegistry}
    /\ dValues[<<"k">>] = StringV(<<"j">>)
    /\ dValues[<<"j">>] = StringV(<<"c">>)
    /\ dValues[KeyRegistry] = StringV(<<"r">>)
    /\ calls = 1 /\ lastCall.ref = StringV(<<"k">>) /\ lastCall.via = "fromImage"
    /\ lastCall.out = TxtArgRegistry \o <<"r">> \o TxtNewline \o TxtFrom \o TxtRegistryPath \o <<"c">>

\* C14: every fromImage call terminates and returns text, whatever the
\* reference and the Values mapping, including mappings in which a string
\* value names its own key or a chain of string values leads back to an
\* earlier key.
C14_AlwaysReturns ==
    calls > 0 => ~lastCall.fatal

(***************************************************************************)
(* workflow.parseDockerfileDependencies on the text of a Dockerfile.  The  *)
(* content is held as the lines of strings.Split(content, "\n"), a line as *)
(* its words (the maximal runs of characters that are not white space,     *)
(* one white space character between two words), a word as its characters.*)
(***************************************************************************)
KwFROM == <<"F", "R", "O", "M">>
KwCOPY == <<"C", "O", "P", "Y">>
KwAS == <<"A", "S">>
FlagFrom == <<"-", "-", "f", "r", "o", "m", "=">>

HasPrefix(s, prefix) == Len(s) >= Len(prefix) /\ SubSeq(s, 1, Len(prefix)) = prefix
Drop(s, n) == SubSeq(s, n + 1, Len(s))
Positions(s, c) == {i \in 1..Len(s) : s[i] = c}
MaxOf(S) == CHOOSE x \in S : \A y \in S : y <= x
MinOf(S) == CHOOSE x \in S : \A y \in S : x <= y

NoMatch == [ok |-> FALSE, image |-> <<>>, version |-> <<>>]

\* \$\{REGISTRY\}/([^:\s]+):([^\s]+) matched at the start of a word: the
\* image runs to the first colon, the version to the end of the word
registryMatchAt(w) ==
    IF ~HasPrefix(w, TxtRegistryPath) THEN NoMatch
    ELSE LET rest == Drop(w, Len(TxtRegistryPath))
             colons == Positions(rest, ":")
         IN IF colons = {} \/ MinOf(colons) = 1 \/ MinOf(colons) = Len(rest)
            THEN NoMatch
            ELSE [ok |-> TRUE,
                  image |-> SubSeq(rest, 1, MinOf(colons) - 1),
                  version |-> Drop(rest, MinOf(colons))]

\* regexp \$\{REGISTRY\}/([^:\s]+):([^\s]+) FindStringSubmatch(fromRef): the
\* expression is not anchored, the leftmost match is taken
RECURSIVE registryMatch(_)
registryMatch(fromRef) ==
    IF fromRef = <<>> THEN NoMatch
    ELSE IF registryMatchAt(fromRef).ok THEN registryMatchAt(fromRef)
    ELSE registryMatch(Tail(fromRef))

\* fromPattern ^\s*FROM\s+\$\{REGISTRY\}/([^:\s]+):([^\s]+)
fromPattern(line) ==
    IF Len(line) >= 2 /\ line[1] = KwFROM THEN registryMatchAt(line[2]) ELSE NoMatch

\* ^\s*FROM\s+.*\s+AS\s+([^\s]+): the word after the last word AS that has
\* a word before it (after FROM) and a word after it
stagePattern(line) ==
    LET at == {i \in 3..(Len(line) - 1) : line[i] = KwAS}
    IN IF Len(line) >= 1 /\ line[1] = KwFROM /\ at # {}
       THEN [ok |-> TRUE, name |-> line[MaxOf(at) + 1]]
       ELSE [ok |-> FALSE, name |-> <<>>]

\* positions of a word at which --from= begins with a character after it
FlagPositions(w) ==
    {q \in 1..Len(w) : HasPrefix(Drop(w, q - 1), FlagFrom) /\ q + Len(FlagFrom) <= Len(w)}

\* copyFromPattern ^\s*COPY\s+.*--from=([^\s]+): .* is greedy, so the last
\* --from= of the line that has a character after it is taken
copyFromPattern(line) ==
    LET at == {i \in 2..Len(line) : FlagPositions(line[i]) # {}}
    IN IF Len(line) >= 1 /\ line[1] = KwCOPY /\ at # {}
       THEN [ok |-> TRUE,
             ref |-> Drop(line[MaxOf(at)],
                          MaxOf(FlagPositions(line[MaxOf(at)])) + Len(FlagFrom) - 1)]
       ELSE [ok |-> FALSE, ref |-> <<>>]

\* mutant of stageNames: no stage name is tracked
stageNamesNone(lines) == {}

\* the first loop: the stage names of all lines
stageNames(lines) ==
    {stagePattern(lines[i]).name : i \in {k \in 1..Len(lines) : stagePattern(lines[k]).ok}}

\* the second loop: depsMap
depsMap(lines) ==
    {DepKey(fromPattern(lines[i]).image, fromPattern(lines[i]).version) :
        i \in {k \in 1..Len(lines) : fromPattern(lines[k]).ok}}
    \cup
    {DepKey(registryMatch(copyFromPattern(lines[i]).ref).image,
            registryMatch(copyFromPattern(lines[i]).ref).version) :
        i \in {k \in 1..Len(lines) :
                 /\ copyFromPattern(lines[k]).ok
                 /\ copyFromPattern(lines[k]).ref \notin stageNames(lines)
                 /\ registryMatch(copyFromPattern(lines[k]).ref).ok}}

\* strings.Split(s, sep) for a separator of one character
RECURSIVE SplitOn(_, _)
SplitOn(s, c) ==
    IF Positions(s, c) = {} THEN <<s>>
    ELSE <<SubSeq(s, 1, MinOf(Positions(s, c)) - 1)>>
         \o SplitOn(Drop(s, MinOf(Positions(s, c))), c)

\* mutant of SplitLines: the content is taken as one line
SplitLinesNone(content) == <<content>>

\* lines := strings.Split(string(content), "\n")
SplitLines(content) == SplitOn(content, "\n")

\* the words of a line, which the \s* and \s+ of the expressions separate
Words(line) ==
    LET NonEmpty(w) == w # <<>>
    IN SelectSeq(SplitOn(line, " "), NonEmpty)

\* the file whose content is the given text
FileOfText(content) ==
    LET lines == SplitLines(content)
    IN [exists |-> TRUE, lines |-> [i \in 1..Len(lines) |-> Words(lines[i])]]

\* a file that cannot be read, and a file of the given lines
NoFile == [exists |-> FALSE, lines |-> <<>>]
FileOf(lines) == [exists |-> TRUE, lines |-> lines]

\* parseDockerfileDependencies applied to a file
parseDockerfile(file) ==
    IF ~file.exists
    THEN [deps |-> <<>>, err |-> [kind |-> "reading Dockerfile"]]
    ELSE [deps |-> SortStrings(depsMap(file.lines)), err |-> NoErr]

\* number of lines of a Dockerfile
MaxLines == 3

RefA1 == TxtRegistryPath \o <<"a", ":", "1">>
RefB2 == TxtRegistryPath \o <<"b", ":", "2">>

\* the lines Dockerfiles are made of
LinePool ==
    { <<KwFROM, <<"x">>>>,
      <<KwFROM, RefA1>>,
      <<KwFROM, RefB2, KwAS, <<"s">>>>,
      <<KwFROM, <<"x">>, KwAS, <<"s">>>>,
      <<KwFROM, <<"x">>, KwAS, RefA1>>,
      <<KwFROM, TxtRegistryPath \o <<"a">>>>,
      <<KwCOPY, FlagFrom \o RefA1, <<"/", "x">>>>,
      <<KwCOPY, FlagFrom \o RefB2, <<"/", "x">>>>,
      <<KwCOPY, FlagFrom \o <<"s">>, <<"/", "x">>>>,
      <<KwCOPY, FlagFrom \o <<"x", ":", "1">>, <<"/", "x">>>>,
      <<KwCOPY, FlagFrom \o <<"x">> \o RefA1, <<"/", "x">>>>,
      <<<<"R", "U", "N">>, <<"x">>>> }

DockerfileTexts ==
    {NoFile} \cup {FileOf(l) : l \in UNION {[1..n -> LinePool] : n \in 0..MaxLines}}

InitParse ==
    /\ input \in DockerfileTexts
    /\ output = <<>>
    /\ fpc = "start"
    /\ GenIdle
    /\ WorkflowIdle
    /\ MergeIdle
    /\ DataIdle

\* deps, err := parseDockerfileDependencies(path)
ParseDockerfile ==
    /\ fpc = "start"
    /\ output' = parseDockerfile(input)
    /\ fpc' = "done"
    /\ UNCHANGED input
    /\ UNCHANGED genVars
    /\ UNCHANGED wfVars
    /\ UNCHANGED mergeVars
    /\ UNCHANGED dataVars

NextParse == ParseDockerfile

SpecParse == InitParse /\ [][NextParse]_vars

\* the keys <image>:<version> for which the text is ${REGISTRY}/<image>:<version>
FormImages == {<<"a">>, <<"b">>}
FormVersions == {<<"1">>, <<"2">>}
KeysOfForm(text) ==
    {k \in {DepKey(i, v) : i \in FormImages, v \in FormVersions} :
        text = TxtRegistryPath \o k}

\* the keys for which the text holds ${REGISTRY}/<image>:<version> from some
\* position to its end
KeysHeldBy(text) ==
    UNION {KeysOfForm(Drop(text, n)) : n \in 0..Len(text)}

\* the aliases declared by the lines FROM ... AS <alias> of a file
AliasesOf(lines) ==
    {lines[i][j + 1] : <<i, j>> \in
        {q \in UNION {{i} \X (3..(Len(lines[i]) - 1)) : i \in 1..Len(lines)} :
            /\ lines[q[1]][1] = KwFROM
            /\ lines[q[1]][q[2]] = KwAS}}

\* the references of the COPY --from=<ref> words of a file
CopyRefsOf(lines) ==
    {Drop(lines[q[1]][q[2]], Len(FlagFrom)) : q \in
        {q \in UNION {{i} \X (2..Len(lines[i])) : i \in 1..Len(lines)} :
            /\ lines[q[1]][1] = KwCOPY
            /\ HasPrefix(lines[q[1]][q[2]], FlagFrom)}}

\* the references of the FROM <ref> lines of a file
FromRefsOf(lines) ==
    {lines[i][2] : i \in {k \in 1..Len(lines) : Len(lines[k]) >= 2 /\ lines[k][1] = KwFROM}}

Ascending(seq) == \A i \in 1..(Len(seq) - 1) : StrLess(seq[i], seq[i + 1])

\* C15: parseDockerfileDependencies returns exactly the keys <image>:<version>
\* of the lines FROM ${REGISTRY}/<image>:<version> and of the references
\* COPY --from=${REGISTRY}/<image>:<version> that are not stage aliases, each
\* key once, in ascending order; a reference that is not of the ${REGISTRY}
\* form contributes nothing.
C15_ExactlyRegistryKeys ==
    (fpc = "done" /\ input.exists) =>
        /\ output.err = NoErr
        /\ Ascending(output.deps)
        /\ Range(output.deps) =
              UNION {KeysOfForm(r) : r \in FromRefsOf(input.lines)}
              \cup UNION {KeysOfForm(r) :
                            r \in CopyRefsOf(input.lines) \ AliasesOf(input.lines)}

\* C16: a COPY --from=<ref> whose <ref> is a stage alias declared by a line
\* FROM ... AS <alias> of the file, before or after the COPY line, is not
\* reported: every key returned is the key of a FROM line or is held by a
\* COPY reference that is not an alias.
C16_AliasNeverReported ==
    (fpc = "done" /\ input.exists) =>
        Range(output.deps) \subseteq
            UNION {KeysOfForm(r) : r \in FromRefsOf(input.lines)}
            \cup UNION {KeysHeldBy(r) :
                          r \in CopyRefsOf(input.lines) \ AliasesOf(input.lines)}

\* C16 witness: the COPY reference has the ${REGISTRY} form and is declared
\* as an alias by a later line; nothing is returned.
C16_Witness ==
    /\ fpc = "done" /\ input.exists /\ Len(input.lines) = 2
    /\ input.lines[1] = <<KwCOPY, FlagFrom \o RefA1, <<"/", "x">>>>
    /\ input.lines[2] = <<KwFROM, <<"x">>, KwAS, RefA1>>
    /\ output.deps = <<>>

\* C17: buildJobsFromConfig returns exactly one job per (image, version)
\* pair of the manifest and no other job, ordered by image name ascending
\* and within an image by version label ascending; each job carries the
\* image name, the version label, the name Build <image>:<version> and the
\* ID generateJobID(image, version).
C17_OneJobPerPairInOrder ==
    pc = "built" =>
        /\ Len(jobs) = Cardinality(PairsOf(cfg))
        /\ {<<jobs[i].ImageName, jobs[i].Version>> : i \in 1..Len(jobs)} = PairsOf(cfg)
        /\ \A i \in 1..(Len(jobs) - 1) :
              \/ StrLess(jobs[i].ImageName, jobs[i + 1].ImageName)
              \/ /\ jobs[i].ImageName = jobs[i + 1].ImageName
                 /\ StrLess(jobs[i].Version, jobs[i + 1].Version)
        /\ \A i \in 1..Len(jobs) :
              /\ jobs[i].Name = <<"B", "u", "i", "l", "d", " ">> \o jobs[i].ImageName
                                  \o <<":">> \o jobs[i].Version
              /\ jobs[i].ID = generateJobID(jobs[i].ImageName, jobs[i].Version)

\* C17 witness: two images, one of them with two versions.
C17_Witness ==
    /\ pc = "built"
    /\ DOMAIN cfg = {<<"a", "-", "b">>, <<"x">>}
    /\ Len(jobs) = 3
    /\ jobs[1].ImageName = <<"a", "-", "b">>
    /\ jobs[2].ImageName = <<"x">> /\ jobs[2].Version = <<"1">>
    /\ jobs[3].ImageName = <<"x">> /\ jobs[3].Version = <<"2">>

\* the IDs of the jobs of js whose key <image>:<version> is among keys
IDsOfKeys(js, keys) ==
    {js[k].ID : k \in {n \in 1..Len(js) : DepKey(js[n].ImageName, js[n].Version) \in keys}}

\* C18: after orderJobsByDependencies succeeds, the Needs of each job (of
\* the caller's slice and of the returned list) holds exactly the IDs of
\* the jobs whose key is among the dependency keys of the job's Dockerfile;
\* a key that matches no job gives nothing, and every Needs entry is the ID
\* of a job of the returned list.
C18_NeedsAreMatchedKeys ==
    pc = "ordered" =>
        /\ \A i \in 1..Len(jobs) :
              Range(jobs[i].Needs) = IDsOfKeys(jobs, dockerfiles[jobs[i].DockerfilePath])
        /\ \A i \in 1..Len(ordered) :
              /\ Range(ordered[i].Needs) =
                    IDsOfKeys(jobs, dockerfiles[ordered[i].DockerfilePath])
              /\ Range(ordered[i].Needs) \subseteq {ordered[k].ID : k \in 1..Len(ordered)}

\* C18 witness: a Dockerfile that refers to two jobs and to an image that is
\* no job.
C18_Witness ==
    /\ pc = "ordered" /\ Len(ordered) = 3
    /\ \E i \in 1..Len(ordered) :
          /\ ExternalKey \in dockerfiles[ordered[i].DockerfilePath]
          /\ Cardinality(dockerfiles[ordered[i].DockerfilePath]) = 3
          /\ Len(ordered[i].Needs) = 2
          /\ ordered[i].Needs[1] # ordered[i].Needs[2]

(***************************************************************************)
(* generateJobID as a function of an image name and a version label.       *)
(***************************************************************************)
\* length of the image names and version labels given to generateJobID
MaxIdLen == 2

\* a letter, an upper case letter, a digit, and - . _
IdAlphabet == {"a", "B", "1", "-", ".", "_"}

IdStrings == UNION {[1..n -> IdAlphabet] : n \in 0..MaxIdLen}

InitID ==
    /\ input \in [imageName : IdStrings, version : IdStrings]
    /\ output = <<>>
    /\ fpc = "start"
    /\ GenIdle
    /\ WorkflowIdle
    /\ MergeIdle
    /\ DataIdle

\* id := generateJobID(imageName, version)
GenerateID ==
    /\ fpc = "start"
    /\ output' = generateJobID(input.imageName, input.version)
    /\ fpc' = "done"
    /\ UNCHANGED input
    /\ UNCHANGED genVars
    /\ UNCHANGED wfVars
    /\ UNCHANGED mergeVars
    /\ UNCHANGED dataVars

NextID == GenerateID

SpecID == InitID /\ [][NextID]_vars

\* the rule of the claim, step by step on positions of the text
RuleAllowed(c) == c \in {"a", "B", "1", "-", "_"}
\* every run of characters outside [A-Za-z0-9_-] becomes one -
RuleReplaceRuns(s) ==
    LET keep == {i \in 1..Len(s) : RuleAllowed(s[i]) \/ i = 1 \/ RuleAllowed(s[i - 1])}
        Pick(i) == i \in keep
        at == SelectSeq([i \in 1..Len(s) |-> i], Pick)
    IN [n \in 1..Len(at) |-> IF RuleAllowed(s[at[n]]) THEN s[at[n]] ELSE "-"]
\* consecutive - become one
RuleCollapse(s) ==
    LET keep == {i \in 1..Len(s) : s[i] # "-" \/ i = 1 \/ s[i - 1] # "-"}
        Pick(i) == i \in keep
        at == SelectSeq([i \in 1..Len(s) |-> i], Pick)
    IN [n \in 1..Len(at) |-> s[at[n]]]
\* leading and trailing - are removed
RuleTrim(s) ==
    LET solid == {i \in 1..Len(s) : s[i] # "-"}
    IN IF solid = {} THEN <<>>
       ELSE SubSeq(s, CHOOSE i \in solid : \A k \in solid : i <= k,
                      CHOOSE i \in solid : \A k \in solid : k <= i)
\* build- is put in front of a text that does not begin with a letter or _
RulePrefix(s) ==
    IF s # <<>> /\ s[1] \in {"a", "B", "_"} THEN s
    ELSE <<"b", "u", "i", "l", "d", "-">> \o s

\* C19: generateJobID(image, version) equals the rule applied to
\* <image>-<version>: every run of characters outside [A-Za-z0-9_-] becomes
\* one -, consecutive - become one, leading and trailing - are removed, and
\* build- is put in front when the result does not begin with a letter or
\* an underscore.
C19_IDFollowsRule ==
    fpc = "done" =>
        output = RulePrefix(RuleTrim(RuleCollapse(RuleReplaceRuns(
                    input.imageName \o <<"-">> \o input.version))))

\* C19 witness: all four steps of the rule change the text.
C19_Witness ==
    /\ fpc = "done"
    /\ input.imageName = <<"1", ".">> /\ input.version = <<".", "a">>
    /\ output = <<"b", "u", "i", "l", "d", "-", "1", "-", "a">>

(***************************************************************************)
(* config.loadReader.  A document is held by what the two yaml.Unmarshal   *)
(* calls make of it: whether it can be read, whether it is YAML, the value *)
(* of its entry version (absent, an integer, or a value that is no         *)
(* integer), and its body: the image names of a v1 manifest, or a body     *)
(* that does not fit Config.                                               *)
(***************************************************************************)
\* the version numbers of the documents are -MaxVersion..MaxVersion
MaxVersion == 3

VersionAbsent == [kind |-> "absent", n |-> 0]
VersionInt(n) == [kind |-> "int", n |-> n]
VersionOther == [kind |-> "other", n |-> 0]

VersionEntries ==
    {VersionAbsent, VersionOther} \cup {VersionInt(n) : n \in (0 - MaxVersion)..MaxVersion}

BadBody == [fits |-> FALSE, images |-> {}]
BodyOf(images) == [fits |-> TRUE, images |-> images]
Bodies == {BadBody} \cup {BodyOf(I) : I \in SUBSET ImagePool}

Documents ==
    [readable : BOOLEAN, yaml : BOOLEAN, version : VersionEntries, body : Bodies]

\* the document of no bytes
EmptyDocument ==
    [readable |-> TRUE, yaml |-> TRUE, version |-> VersionAbsent, body |-> BodyOf({})]

\* a nil *Config, and a pointer to a Config
NilConfig == <<>>
ConfigOf(version, images) == <<[Version |-> version, Images |-> images]>>

\* yaml.Unmarshal(data, &versioned): the field Version stays 0 when the
\* document has no entry version
DecodedVersion(doc) == IF doc.version.kind = "int" THEN doc.version.n ELSE 0

\* mutant of loadReader: version 0 is not tested before the switch
loadReaderNoZeroTest(doc) ==
    IF ~doc.readable THEN [config |-> NilConfig, err |-> [kind |-> "read"]]
    ELSE IF ~doc.yaml \/ doc.version.kind = "other"
    THEN [config |-> NilConfig, err |-> [kind |-> "failed to parse config"]]
    ELSE IF DecodedVersion(doc) = 1 /\ doc.body.fits
    THEN [config |-> ConfigOf(1, doc.body.images), err |-> NoErr]
    ELSE IF DecodedVersion(doc) = 1
    THEN [config |-> NilConfig, err |-> [kind |-> "failed to parse v1 config"]]
    ELSE [config |-> NilConfig, err |-> [kind |-> "unsupported config version"]]

loadReader(doc) ==
    IF ~doc.readable THEN [config |-> NilConfig, err |-> [kind |-> "read"]]
    ELSE IF ~doc.yaml \/ doc.version.kind = "other"
    THEN [config |-> NilConfig, err |-> [kind |-> "failed to parse config"]]
    ELSE IF DecodedVersion(doc) = 0
    THEN [config |-> NilConfig, err |-> [kind |-> "config version is required"]]
    ELSE IF DecodedVersion(doc) = 1
    THEN IF ~doc.body.fits
         THEN [config |-> NilConfig, err |-> [kind |-> "failed to parse v1 config"]]
         ELSE [config |-> ConfigOf(1, doc.body.images), err |-> NoErr]
    ELSE [config |-> NilConfig, err |-> [kind |-> "unsupported config version"]]

InitLoad ==
    /\ input \in Documents
    /\ output = <<>>
    /\ fpc = "start"
    /\ GenIdle
    /\ WorkflowIdle
    /\ MergeIdle
    /\ DataIdle

\* config, err := loadReader(fd)
LoadReader ==
    /\ fpc = "start"
    /\ output' = loadReader(input)
    /\ fpc' = "done"
    /\ UNCHANGED input
    /\ UNCHANGED genVars
    /\ UNCHANGED wfVars
    /\ UNCHANGED mergeVars
    /\ UNCHANGED dataVars

NextLoad == LoadReader

SpecLoad == InitLoad /\ [][NextLoad]_vars

\* the document can be read and its version can be decoded
Decodable(doc) == doc.readable /\ doc.yaml /\ doc.version.kind # "other"

\* C20: loadReader returns a Config only for a document of schema version
\* 1; a version that is absent or 0 (the empty document included) fails
\* with config version is required, every other version fails with
\* unsupported config version; the two errors differ and no Config is
\* returned with either.
C20_OnlyVersionOne ==
    fpc = "done" =>
        /\ (~IsErr(output.err) \/ output.config # NilConfig) =>
              input.version = VersionInt(1)
        /\ (Decodable(input) /\ input.version \in {VersionAbsent, VersionInt(0)}) =>
              /\ output.err = [kind |-> "config version is required"]
              /\ output.config = NilConfig
        /\ (Decodable(input) /\ input.version.kind = "int" /\ input.version.n \notin {0, 1}) =>
              /\ output.err = [kind |-> "unsupported config version"]
              /\ output.config = NilConfig
        /\ input = EmptyDocument => output.err = [kind |-> "config version is required"]

\* C20 witness: a document of a negative version whose body would fit a v1
\* manifest.
C20_Witness ==
    /\ fpc = "done" /\ Decodable(input)
    /\ input.version = VersionInt(0 - 1) /\ input.body = BodyOf({<<"x">>})
    /\ output.err = [kind |-> "unsupported config version"]
    /\ output.config = NilConfig

(***************************************************************************)
(* generator.GenerateImage: for every version of one image the overlays    *)
(* are merged, version and registry are injected, the output directory is  *)
(* removed and created again, and every template of the source directory   *)
(* is rendered into it with one Data of that version.                      *)
(***************************************************************************)
\* number of versions of the image
MaxVersions == 2

KeyVersion == <<"v", "e", "r", "s", "i", "o", "n">>
KeyBaseImage == <<"b", "a", "s", "e", "_", "i", "m", "a", "g", "e">>
KeyImageName == <<"i", "m", "a", "g", "e", "_", "n", "a", "m", "e">>
NameKey == <<"n", "a", "m", "e">>
SourceKey == <<"s", "o", "u", "r", "c", "e">>
\* filepath.Join(imagePath, "source"): the entry source of the image directory
SourceName == <<"s", "o", "u", "r", "c", "e">>

\* ---- the directory of the image ----
\* a file name with or without the suffix .tmpl, and strings.TrimSuffix
FileName(base, tmpl) == [base |-> base, tmpl |-> tmpl]
TrimSuffixTmpl(name) == FileName(name.base, FALSE)
\* the lexical order in which filepath.Walk visits the files of the model:
\* Dockerfile.tmpl, cert.pem, entrypoint.sh.tmpl
WalkRank(name) ==
    CASE name.base = "Dockerfile" -> 1
      [] name.base = "cert.pem" -> 2
      [] OTHER -> 3
RECURSIVE WalkOrder(_)
WalkOrder(names) ==
    IF names = {} THEN <<>>
    ELSE LET n == CHOOSE x \in names : \A y \in names : WalkRank(x) <= WalkRank(y)
         IN <<n>> \o WalkOrder(names \ {n})

\* a file: a template is held as the arguments of its from_image calls, any
\* other file as its text
TemplateFile(args) == [calls |-> args, text |-> <<>>]
TextFile(text) == [calls |-> <<>>, text |-> text]
\* an entry of the image directory: a directory of files, or a plain file
Dir(files) == [isDir |-> TRUE, files |-> files]
PlainFile == [isDir |-> FALSE, files |-> <<>>]

\* os.RemoveAll(path) and os.MkdirAll(path) on an entry of the image directory
RemoveAll(fs, name) == [n \in DOMAIN fs \ {name} |-> fs[n]]
MkdirAll(fs, name) ==
    IF name \in DOMAIN fs THEN fs
    ELSE [n \in DOMAIN fs \cup {name} |-> IF n = name THEN Dir(<<>>) ELSE fs[n]]
\* os.WriteFile(filepath.Join(dir, name), content)
WriteInto(fs, dir, name, file) ==
    [fs EXCEPT ![dir].files =
        [n \in DOMAIN fs[dir].files \cup {name} |-> IF n = name THEN file ELSE @[n]]]

\* cleanupOrphanedVersions(imagePath, versions)
cleanupOrphanedVersions(fs, versions) ==
    [n \in {e \in DOMAIN fs : ~fs[e].isDir \/ e = SourceName \/ e \in versions} |-> fs[n]]

\* discoverTemplateFiles(sourceDir): the files with suffix .tmpl, in walk order
discoverTemplateFiles(fs) ==
    WalkOrder({n \in DOMAIN fs[SourceName].files : n.tmpl})

\* ---- template.NewData ----
\* the interface{} value of the heap as the template functions see it
DataOfValue(h, val) ==
    IF val.a = Nil THEN StringV(val.s)
    ELSE IF h[val.a].t = "map"
    THEN MapV(IF NameKey \in DOMAIN h[val.a].m /\ h[val.a].m[NameKey].a = Nil
              THEN StrField(h[val.a].m[NameKey].s)
              ELSE IF NameKey \in DOMAIN h[val.a].m THEN OtherField ELSE NoField,
              IF SourceKey \in DOMAIN h[val.a].m /\ h[val.a].m[SourceKey].a = Nil
              THEN StrField(h[val.a].m[SourceKey].s)
              ELSE IF SourceKey \in DOMAIN h[val.a].m THEN OtherField ELSE NoField)
    ELSE OtherV(<<>>)

\* the map data of NewData: base_image, then the entries of Values, then
\* image_name
NewDataValues(h, mergedConfig, imageName) ==
    LET vals == h[h[mergedConfig].Values].m
        keys == (IF h[mergedConfig].BaseImage # Nil THEN {KeyBaseImage} ELSE {})
                \cup DOMAIN vals \cup {KeyImageName}
    IN [k \in keys |->
          IF k = KeyImageName THEN StringV(imageName)
          ELSE IF k \in DOMAIN vals THEN DataOfValue(h, vals[k])
          ELSE BaseImageV(h[h[mergedConfig].BaseImage].Name,
                          h[h[mergedConfig].BaseImage].Source)]

\* mutant of NewData: the new Data has its flag set
NewDataFlagSet(h, mergedConfig, imageName) ==
    [Values |-> NewDataValues(h, mergedConfig, imageName), rootPathIncluded |-> TRUE]

\* NewData(mergedConfig, imageName)
NewData(h, mergedConfig, imageName) ==
    [Values |-> NewDataValues(h, mergedConfig, imageName), rootPathIncluded |-> FALSE]

\* ---- template.WriteFile / render ----
\* the text of a template executed on a Data: the results of its from_image
\* calls, one after the other, each followed by a newline
RECURSIVE render(_, _, _)
render(values, flag, args) ==
    IF args = <<>> THEN [text |-> <<>>, flag |-> flag]
    ELSE LET r == from_image(values, flag, Head(args))
             rest == render(values, r.flag, Tail(args))
         IN [text |-> r.out \o TxtNewline \o rest.text, flag |-> rest.flag]

\* the loop over templateFiles: every file is rendered with the same
\* templateData and written into outputDir without its suffix
RECURSIVE renderFiles(_, _, _, _, _)
renderFiles(fs, outputDir, values, flag, templateFiles) ==
    IF templateFiles = <<>> THEN [fs |-> fs, flag |-> flag]
    ELSE LET r == render(values, flag, fs[SourceName].files[Head(templateFiles)].calls)
         IN renderFiles(
               WriteInto(fs, outputDir, TrimSuffixTmpl(Head(templateFiles)), TextFile(r.text)),
               outputDir, values, r.flag, Tail(templateFiles))

\* copyNonTemplateFiles(sourceDir, outputDir, templateFiles)
RECURSIVE copyFiles(_, _, _)
copyFiles(fs, outputDir, names) ==
    IF names = <<>> THEN fs
    ELSE copyFiles(WriteInto(fs, outputDir, Head(names), fs[SourceName].files[Head(names)]),
                   outputDir, Tail(names))
copyNonTemplateFiles(fs, outputDir, exclude) ==
    copyFiles(fs, outputDir,
              WalkOrder({n \in DOMAIN fs[SourceName].files :
                            \A i \in 1..Len(exclude) : exclude[i] # n}))

\* ---- the body of the loop over image.Versions ----
\* lines 61-65: a nil overlay is replaced by an empty one
versionConfigOf(h, versionConfig) ==
    IF versionConfig = Nil THEN NewImageConfig(h) ELSE [h |-> h, p |-> versionConfig]

\* line 67: mergedConfig := versionConfig.Merge(imageDefaults)
mergeVersion(vc, imageDefaults) == Merge(vc.h, vc.p, imageDefaults)

\* c.Values[key] = val on the configuration c.p of the heap c.h
setValue(c, key, val) ==
    [h |-> [c.h EXCEPT ![c.h[c.p].Values].m = MapSet(@, key, val)], p |-> c.p]

\* mutant of injectRegistry: the default registry is set in every case
injectRegistryAlways(c, registry) == setValue(c, KeyRegistry, ScalarVal(registry))

\* lines 70-72: registry is set to the default unless the values define it
injectRegistry(c, registry) ==
    IF KeyRegistry \in DOMAIN c.h[c.h[c.p].Values].m THEN c
    ELSE setValue(c, KeyRegistry, ScalarVal(registry))

\* mutant of injectVersion: the version is set on the image defaults too
injectVersionIntoDefaults(c, imageDefaults, versionName) ==
    setValue([h |-> setValue([h |-> c.h, p |-> imageDefaults], KeyVersion,
                             ScalarVal(versionName)).h,
              p |-> c.p],
             KeyVersion, ScalarVal(versionName))

\* line 68: mergedConfig.Values["version"] = versionName
injectVersion(c, imageDefaults, versionName) == setValue(c, KeyVersion, ScalarVal(versionName))

\* lines 61-72: the resolved configuration of a version
resolveVersion(h, man, imageDefaults, versionName) ==
    injectRegistry(
        injectVersion(mergeVersion(versionConfigOf(h, man.Versions[versionName]),
                                   imageDefaults),
                      imageDefaults, versionName),
        man.Registry)

\* lines 90-107 on the rendered directory: the other files are copied
copyAfterRender(r, outputDir, templateFiles) ==
    [fs |-> copyNonTemplateFiles(r.fs, outputDir, templateFiles),
     templateFiles |-> templateFiles,
     flag |-> r.flag]

\* lines 82-107: the templates found in the source directory are rendered
\* with the one Data of the version, then the other files are copied
renderVersion(fs, outputDir, data, templateFiles) ==
    copyAfterRender(
        renderFiles(fs, outputDir, data.Values, data.rootPathIncluded, templateFiles),
        outputDir, templateFiles)

\* lines 84-107 on the directory with the new output directory
fillOutputDir(fs, outputDir, data) ==
    renderVersion(fs, outputDir, data, discoverTemplateFiles(fs))

\* lines 74-107: the output directory is removed and created, the
\* templates are rendered and the other files copied
writeVersion(fs, versionName, data) ==
    fillOutputDir(MkdirAll(RemoveAll(fs, versionName), versionName), versionName, data)

\* ---- the manifests and image directories of the model ----
ImageNameGen == <<"x">>
LabelPool == {<<"1">>, <<"2">>, SourceName}

GenBase(src) == [present |-> TRUE, Name |-> <<"u", ":", "1">>, Source |-> src]
GenConfig(base, values) ==
    [nil |-> FALSE, base |-> base, hasValues |-> TRUE, values |-> values]
\* version overlays: nil, empty, with a registry of its own, with a descriptor
GenOverlays ==
    {AbsentConfig,
     GenConfig(NoBaseImage, <<>>),
     GenConfig(NoBaseImage, [k \in {KeyRegistry} |-> TScalar(<<"o">>)]),
     GenConfig(GenBase(Dockerhub), <<>>)}
\* image defaults: nil, or a descriptor with or without a registry
GenDefaults ==
    {AbsentConfig,
     GenConfig(GenBase(<<>>), [k \in {KeyRegistry} |-> TScalar(<<"d">>)]),
     GenConfig(GenBase(<<>>), [k \in {<<"k">>} |-> TScalar(<<"d">>)])}

\* the overlays of the versions on the heap, and the map of their pointers
WithVersion(rest, label, ptr) == [h |-> rest.h, p |-> MapSet(rest.p, label, ptr)]
RECURSIVE BuildVersions(_, _, _)
BuildVersions(h, trees, labels) ==
    IF labels = <<>> THEN [h |-> h, p |-> <<>>]
    ELSE LET b == BuildConfig(h, trees[Head(labels)])
         IN WithVersion(BuildVersions(b.h, trees, Tail(labels)), Head(labels), b.p)

ArgBaseImage == StringV(KeyBaseImage)
Dockerfile == FileName("Dockerfile", TRUE)
Entrypoint == FileName("entrypoint.sh", TRUE)
CertPem == FileName("cert.pem", FALSE)
\* source directories: one template; two templates and a plain file; one
\* template with two from_image calls
SourceDirs ==
    {Dir([n \in {Dockerfile} |-> TemplateFile(<<ArgBaseImage>>)]),
     Dir([n \in {Dockerfile, Entrypoint, CertPem} |->
            IF n = CertPem THEN TextFile(<<"p", "e", "m">>)
            ELSE TemplateFile(<<ArgBaseImage>>)]),
     Dir([n \in {Dockerfile} |-> TemplateFile(<<ArgBaseImage, ArgBaseImage>>)])}
\* the other entries: a plain file, and perhaps the directories 1 (of an
\* earlier generation) and 9 (of a version that is gone)
OldDir == Dir([n \in {FileName("Dockerfile", FALSE)} |-> TextFile(<<"o", "l", "d">>)])
ImageDirs ==
    {[n \in {<<"R">>} |-> PlainFile]}
    \cup {[n \in {<<"R">>, SourceName} |-> IF n = SourceName THEN src ELSE PlainFile] :
             src \in SourceDirs}
    \cup {[n \in {<<"R">>, SourceName, <<"1">>, <<"9">>} |->
              IF n = SourceName THEN src ELSE IF n = <<"R">> THEN PlainFile ELSE OldDir] :
             src \in SourceDirs}

\* ---- GenerateImage as a state machine ----
InitGen ==
    /\ \E d \in GenDefaults, labels \in SUBSET LabelPool, fs \in ImageDirs,
          known \in BOOLEAN, basePath \in BOOLEAN :
          /\ Cardinality(labels) <= MaxVersions
          /\ ~(known /\ basePath) => (labels = {} /\ d = AbsentConfig /\ DOMAIN fs = {<<"R">>})
          /\ \E trees \in [labels -> GenOverlays] :
             \E bd \in {BuildConfig(<<>>, d)} :
             \E bv \in {BuildVersions(bd.h, trees, KeySeq(labels))} :
                   /\ heap = bv.h
                   /\ manifest = [known |-> known, basePath |-> basePath,
                                  Registry |-> <<"r">>, Defaults |-> bd.p, Versions |-> bv.p]
                   /\ gen0 = [defaults |-> TreeOfConfig(bv.h, bd.p),
                              versions |-> [v \in labels |-> TreeOfConfig(bv.h, bv.p[v])],
                              fsys |-> fs]
          /\ fsys = fs
    /\ gen = [pc |-> "start", todo |-> {}, imageDefaults |-> Nil, err |-> ""]
    /\ renders = <<>>
    /\ icPtr = Nil /\ defPtr = Nil /\ resPtr = Nil /\ mpc = "idle" /\ snapshot = <<>>
    /\ WorkflowIdle
    /\ DataIdle
    /\ input = <<>> /\ output = <<>> /\ fpc = "idle"

\* lines 26-56: the checks, the cleanup of orphaned directories and the
\* replacement of nil image defaults
GenStart ==
    /\ gen.pc = "start"
    /\ IF ~manifest.known
       THEN /\ gen' = [gen EXCEPT !.pc = "failed", !.err = "image not found in config"]
            /\ UNCHANGED <<heap, fsys>>
       ELSE IF ~manifest.basePath
       THEN /\ gen' = [gen EXCEPT !.pc = "failed", !.err = "base path not set in config"]
            /\ UNCHANGED <<heap, fsys>>
       ELSE IF SourceName \notin DOMAIN fsys
       THEN /\ gen' = [gen EXCEPT !.pc = "failed", !.err = "source directory does not exist"]
            /\ UNCHANGED <<heap, fsys>>
       ELSE \E n \in {versionConfigOf(heap, manifest.Defaults)} :
               /\ fsys' = cleanupOrphanedVersions(fsys, DOMAIN manifest.Versions)
               /\ heap' = n.h
               /\ gen' = [pc |-> "loop", todo |-> DOMAIN manifest.Versions,
                          imageDefaults |-> n.p, err |-> ""]
    /\ UNCHANGED <<manifest, renders, gen0>>
    /\ UNCHANGED <<icPtr, defPtr, resPtr, mpc, snapshot>>
    /\ UNCHANGED wfVars
    /\ UNCHANGED dataVars
    /\ UNCHANGED fnVars

\* lines 58-108: one iteration of the range over image.Versions, which
\* visits the versions in an unspecified order
GenVersion ==
    /\ gen.pc = "loop"
    /\ \E versionName \in gen.todo :
       \E r \in {resolveVersion(heap, manifest, gen.imageDefaults, versionName)} :
       \E templateData \in {NewData(r.h, r.p, ImageNameGen)} :
       \E w \in {writeVersion(fsys, versionName, templateData)} :
             /\ heap' = r.h
             /\ fsys' = w.fs
             /\ gen' = [gen EXCEPT !.todo = @ \ {versionName}]
             /\ renders' = MapSet(renders, versionName,
                                  [mergedConfig |-> r.p,
                                   resolved |-> TreeOfConfig(r.h, r.p),
                                   data |-> templateData,
                                   flag |-> w.flag,
                                   templateFiles |-> w.templateFiles,
                                   before |-> DOMAIN renders])
    /\ UNCHANGED <<manifest, gen0>>
    /\ UNCHANGED <<icPtr, defPtr, resPtr, mpc, snapshot>>
    /\ UNCHANGED wfVars
    /\ UNCHANGED dataVars
    /\ UNCHANGED fnVars

\* line 110: return nil
GenReturn ==
    /\ gen.pc = "loop"
    /\ gen.todo = {}
    /\ gen' = [gen EXCEPT !.pc = "done"]
    /\ UNCHANGED <<manifest, fsys, renders, gen0>>
    /\ UNCHANGED mergeVars
    /\ UNCHANGED wfVars
    /\ UNCHANGED dataVars
    /\ UNCHANGED fnVars

NextGen == GenStart \/ GenVersion \/ GenReturn

SpecGen == InitGen /\ [][NextGen]_vars

(***************************************************************************)
(* config.Load: the manifest from standard input, from a named file, or    *)
(* from the first default location that can be opened.                     *)
(***************************************************************************)
\* the [6]string of Load, and the directory of each location
DefaultLocations ==
    <<"images/manifest.yml", "images/manifest.yaml", "manifest.yml", "manifest.yaml",
      ".manifest.yml", ".manifest.yaml">>
DirOf(file) ==
    IF file \in {"images/manifest.yml", "images/manifest.yaml"} THEN "cwd/images" ELSE "cwd"

\* what a path of the file system holds: nothing (os.Open fails with an
\* error that is fs.ErrNotExist), something that cannot be opened (os.Open
\* fails with another error, such as permission denied), or a document
NotExist == [kind |-> "notExist", doc |-> EmptyDocument]
OpenError == [kind |-> "openError", doc |-> EmptyDocument]
FileWith(doc) == [kind |-> "file", doc |-> doc]

\* config.Defaults.BasePath = dir, on the Config that loadReader returned
WithBasePath(config, dir) ==
    <<[Version |-> config[1].Version, Images |-> config[1].Images, BasePath |-> dir]>>

\* loadFile(file)
loadFile(files, file) ==
    IF files[file].kind = "notExist"
    THEN [config |-> NilConfig, err |-> [kind |-> "open: no such file or directory"]]
    ELSE IF files[file].kind = "openError"
    THEN [config |-> NilConfig, err |-> [kind |-> "open: permission denied"]]
    ELSE LET r == loadReader(files[file].doc)
         IN IF IsErr(r.err) THEN [config |-> NilConfig, err |-> r.err]
            ELSE [config |-> WithBasePath(r.config, DirOf(file)), err |-> NoErr]

\* errors.Is(err, fs.ErrNotExist)
IsNotExist(e) == e.kind = "open: no such file or directory"

\* mutant of LoadDefaults: a location that fails to load is passed over
RECURSIVE LoadDefaultsSkipsFailures(_, _)
LoadDefaultsSkipsFailures(files, i) ==
    IF i > Len(DefaultLocations)
    THEN [config |-> NilConfig, err |-> [kind |-> "no config file found"]]
    ELSE IF IsErr(loadFile(files, DefaultLocations[i]).err)
    THEN LoadDefaultsSkipsFailures(files, i + 1)
    ELSE loadFile(files, DefaultLocations[i])

\* the loop of Load over the default locations, from the i-th on
RECURSIVE LoadDefaults(_, _)
LoadDefaults(files, i) ==
    IF i > Len(DefaultLocations)
    THEN [config |-> NilConfig, err |-> [kind |-> "no config file found"]]
    ELSE LET r == loadFile(files, DefaultLocations[i])
         IN IF IsErr(r.err) /\ IsNotExist(r.err)
            THEN LoadDefaults(files, i + 1)
            ELSE r

\* Load(path); the named file is the entry "named" of files
Load(path, stdin, files) ==
    IF path = "-"
    THEN LET r == loadReader(stdin)
         IN IF IsErr(r.err) THEN [config |-> NilConfig, err |-> r.err]
            ELSE [config |-> WithBasePath(r.config, "cwd"), err |-> NoErr]
    ELSE IF path # "" THEN loadFile(files, path)
    ELSE LoadDefaults(files, 1)

\* the documents of the file systems: two version 1 manifests of different
\* images, and a document without a version
ManifestX == [readable |-> TRUE, yaml |-> TRUE, version |-> VersionInt(1),
              body |-> BodyOf({<<"x">>})]
ManifestNone == [readable |-> TRUE, yaml |-> TRUE, version |-> VersionInt(1),
                 body |-> BodyOf({})]
PathContents == {NotExist, OpenError, FileWith(ManifestX), FileWith(ManifestNone),
                 FileWith(EmptyDocument)}

LocationSet == {DefaultLocations[i] : i \in 1..Len(DefaultLocations)}

\* a call Load(""), Load("-") or Load("named") in a working directory
InitLoadPath ==
    /\ input \in [path : {"", "-", "named"},
                  stdin : {ManifestX, EmptyDocument},
                  files : [LocationSet \cup {"named"} -> PathContents]]
    /\ input.path # "-" => input.stdin = EmptyDocument
    /\ input.path # "named" => input.files["named"] = NotExist
    /\ input.path # "" => \A f \in LocationSet : input.files[f] = FileWith(ManifestNone)
    /\ output = <<>>
    /\ fpc = "start"
    /\ GenIdle
    /\ WorkflowIdle
    /\ MergeIdle
    /\ DataIdle

\* config, err := Load(path)
LoadPath ==
    /\ fpc = "start"
    /\ output' = Load(input.path, input.stdin, input.files)
    /\ fpc' = "done"
    /\ UNCHANGED input
    /\ UNCHANGED genVars
    /\ UNCHANGED wfVars
    /\ UNCHANGED mergeVars
    /\ UNCHANGED dataVars

NextLoadPath == LoadPath

SpecLoadPath == InitLoadPath /\ [][NextLoadPath]_vars

\* the default locations at which os.Open finds something
Found == {i \in 1..Len(DefaultLocations) : input.files[DefaultLocations[i]] # NotExist}

\* C24: Load("") takes the six default locations in their fixed order and
\* returns what loading the first one that is there returns: its manifest,
\* or its failure, whatever the later locations hold; it fails with no
\* config file found exactly when none of the six is there.
C24_FirstDefaultDecides ==
    (fpc = "done" /\ input.path = "") =>
        /\ DefaultLocations =
              <<"images/manifest.yml", "images/manifest.yaml", "manifest.yml",
                "manifest.yaml", ".manifest.yml", ".manifest.yaml">>
        /\ (output.err.kind = "no config file found") = (Found = {})
        /\ Found # {} =>
              /\ output = loadFile(input.files, DefaultLocations[MinOf(Found)])
              /\ ~IsNotExist(output.err)
              /\ ~IsErr(output.err) =>
                    /\ input.files[DefaultLocations[MinOf(Found)]].kind = "file"
                    /\ output.config[1].Images =
                          input.files[DefaultLocations[MinOf(Found)]].doc.body.images

\* C24 witness: the first two locations are missing, the third holds a
\* document that fails to load, and a later one holds a good manifest:
\* the failure of the third is returned.
C24_Witness ==
    /\ fpc = "done" /\ input.path = ""
    /\ Found = {3, 5}
    /\ input.files["manifest.yml"] = FileWith(EmptyDocument)
    /\ input.files[".manifest.yml"] = FileWith(ManifestX)
    /\ output.err.kind = "config version is required"

(***************************************************************************)
(* Properties of workflow generation: unreadable build files, identifiers. *)
(***************************************************************************)
\* the jobs whose build file is not in the file system
UnreadableJobs == {i \in 1..Len(jobs) : jobs[i].DockerfilePath \notin DOMAIN dockerfiles}

\* C22: when the build file of a job cannot be read, parseDockerfileDependencies
\* returns an error; orderJobsByDependencies returns it wrapped with the name
\* of that job and a nil job list, and Generate then has no ordering and
\* never writes the workflow file.
C22_UnreadableFileStopsGeneration ==
    /\ \A i \in UnreadableJobs :
          IsErr(parseDockerfileDependencies(dockerfiles, jobs[i].DockerfilePath).err)
    /\ (pc \notin {"start", "built"} /\ UnreadableJobs # {}) =>
          LET first == MinOf(UnreadableJobs)
          IN /\ pc = "failed"
             /\ err.kind = "parsing dependencies for"
             /\ err.job = jobs[first].Name
             /\ err.cause =
                   parseDockerfileDependencies(dockerfiles, jobs[first].DockerfilePath).err
             /\ err.cause.kind = "reading Dockerfile"
             /\ ordered = NilJobs
             /\ workflowFile = <<>>

\* C22 witness: the call failed on the second job's file, after the first
\* job's file was read.
C22_Witness ==
    /\ pc = "failed"
    /\ Len(jobs) = 3
    /\ UnreadableJobs = {2, 3}
    /\ err.job = jobs[2].Name

\* C25: the jobs built from one manifest have pairwise distinct IDs.
C25_DistinctIDs ==
    pc # "start" =>
        \A i, k \in 1..Len(jobs) : i # k => jobs[i].ID # jobs[k].ID

\* C29: for every image name and version label the identifier returned by
\* generateJobID begins with a letter or an underscore, holds only
\* characters of [A-Za-z0-9_-] and has no two consecutive -.
C29_IDWellFormed ==
    fpc = "done" =>
        /\ output # <<>>
        /\ output[1] \in {"a", "b", "B", "_"}
        /\ \A i \in 1..Len(output) :
              output[i] \in {"a", "B", "1", "_", "-", "b", "u", "i", "l", "d"}
        /\ \A i \in 1..(Len(output) - 1) : ~(output[i] = "-" /\ output[i + 1] = "-")

\* C29 witness: an identifier made for a name and a label that hold no
\* character of [A-Za-z0-9_-].
C29_Witness ==
    /\ fpc = "done"
    /\ input.imageName = <<".", ".">> /\ input.version = <<".">>
    /\ output = <<"b", "u", "i", "l", "d", "-">>

(***************************************************************************)
(* Properties of fromImage: the extractor applied to its text, and the     *)
(* context without a usable registry.                                      *)
(***************************************************************************)
\* the name has the form <image>:<version>: a colon with a character before
\* and after it, and no white space
HasVersionForm(name) ==
    /\ Positions(name, ":") # {}
    /\ MinOf(Positions(name, ":")) \notin {1, Len(name)}
    /\ Positions(name, " ") = {} /\ Positions(name, "\n") = {}

\* C27: the text a call of fromImage returns, read as a build file by
\* parseDockerfileDependencies, gives exactly the key <image>:<version> when
\* the call resolved to a non-dockerhub image of that name (with the flag
\* set or unset, with or without a usable registry), and gives no key when
\* it resolved to a dockerhub image or to a name without a :<version> part.
C27_ExtractorReadsResolver ==
    (calls > 0 /\ LastTerminal.ok) =>
        /\ ~lastCall.fatal
        /\ ~IsErr(parseDockerfile(FileOfText(lastCall.out)).err)
        /\ parseDockerfile(FileOfText(lastCall.out)).deps =
              IF /\ ImageSourceOf(LastTerminal.v) # Dockerhub
                 /\ HasVersionForm(ImageNameOf(LastTerminal.v))
              THEN <<ImageNameOf(LastTerminal.v)>>
              ELSE <<>>

\* C27 witness: a descriptor u:1 resolved on the missing-registry path, its
\* key read back from the two lines returned.
C27_Witness ==
    /\ calls = 2
    /\ KeyRegistry \notin DOMAIN dValues
    /\ lastCall.ref = BaseImageV(<<"u", ":", "1">>, <<>>)
    /\ HasErrLine(lastCall.out)
    /\ parseDockerfile(FileOfText(lastCall.out)).deps = <<<<"u", ":", "1">>>>

\* C28: on a context whose registry value is missing or not a string the
\* flag is never set, every call that resolves to a non-dockerhub image
\* returns the error annotation followed by FROM ${REGISTRY}/<name>, whatever
\* calls came before it, and no returned text holds an ARG REGISTRY= line.
C28_NoRegistryNeverSetsFlag ==
    ~RegistryIsString =>
        /\ ~rootPathIncluded
        /\ ~lastCall.flagBefore
        /\ argLines = 0
        /\ NonDockerhubCall =>
              /\ HasErrLine(lastCall.out)
              /\ errLines >= 1
              /\ lastCall.out =
                    (IF KeyRegistry \in DOMAIN dValues THEN TxtErrNotString ELSE TxtErrNotSet)
                    \o TxtNewline \o TxtFrom \o TxtRegistryPath
                    \o ImageNameOf(LastTerminal.v)

\* C28 witness: the third non-dockerhub resolution of a context without a
\* registry value returns the error annotation like the two before it.
C28_Witness ==
    /\ KeyRegistry \notin DOMAIN dValues
    /\ calls = 3 /\ errLines = 3
    /\ NonDockerhubCall
    /\ ~rootPathIncluded

(***************************************************************************)
(* Properties of GenerateImage.                                            *)
(***************************************************************************)
\* the registry the overlays of a version define themselves, if any
OwnRegistry(versionName) ==
    IF KeyRegistry \in DOMAIN gen0.versions[versionName].values
    THEN <<gen0.versions[versionName].values[KeyRegistry]>>
    ELSE IF KeyRegistry \in DOMAIN gen0.defaults.values
    THEN <<gen0.defaults.values[KeyRegistry]>>
    ELSE <<>>

\* C21: the resolved configuration of every rendered version has version
\* equal to the label of that version and registry equal to the value the
\* merged overlays define, else to the default registry of the manifest;
\* its other values are those of the overlays; the image defaults and the
\* version overlays of the manifest are as before the call, and a resolved
\* configuration is not changed by the versions resolved after it.
C21_InjectedValues ==
    gen.pc \in {"loop", "done"} =>
        /\ \A v \in DOMAIN renders :
              /\ renders[v].resolved.values[KeyVersion] = TScalar(v)
              /\ renders[v].resolved.values[KeyRegistry] =
                    (IF OwnRegistry(v) # <<>> THEN OwnRegistry(v)[1]
                     ELSE TScalar(manifest.Registry))
              /\ DOMAIN renders[v].resolved.values =
                    DOMAIN gen0.versions[v].values \cup DOMAIN gen0.defaults.values
                    \cup {KeyVersion, KeyRegistry}
              /\ TreeOfConfig(heap, renders[v].mergedConfig) = renders[v].resolved
        /\ TreeOfConfig(heap, manifest.Defaults) = gen0.defaults
        /\ \A v \in DOMAIN manifest.Versions :
              TreeOfConfig(heap, manifest.Versions[v]) = gen0.versions[v]

\* C21 witness: two versions were resolved, one whose overlay defines its
\* registry and one that got the default of the manifest.
C21_Witness ==
    /\ gen.pc = "done"
    /\ DOMAIN renders = {<<"1">>, <<"2">>}
    /\ renders[<<"1">>].resolved.values[KeyRegistry] = TScalar(<<"o">>)
    /\ renders[<<"2">>].resolved.values[KeyRegistry] = TScalar(<<"r">>)
    /\ renders[<<"2">>].resolved.values[KeyVersion] = TScalar(<<"2">>)

\* the render of the version resolves a non-dockerhub image
RendersNonDockerhub(v) ==
    /\ renders[v].templateFiles # <<>>
    /\ KeyBaseImage \in DOMAIN renders[v].data.Values =>
          renders[v].data.Values[KeyBaseImage].Source.s # Dockerhub

\* the text written for the first template of the version
FirstText(v) == fsys[v].files[TrimSuffixTmpl(renders[v].templateFiles[1])].text

\* C23: the Data of every version is created with the flag unset, and the
\* first non-dockerhub resolution of the render of every version returns
\* the ARG line, also when versions rendered before it have set the flag of
\* their own Data, which stays as their render left it.
C23_FlagPerVersion ==
    \A v \in DOMAIN renders :
        /\ ~renders[v].data.rootPathIncluded
        /\ RendersNonDockerhub(v) =>
              /\ HasArgLine(FirstText(v))
              /\ renders[v].flag
        /\ ~RendersNonDockerhub(v) => ~renders[v].flag

\* C23 witness: the second version rendered returned the ARG line after the
\* first one had set its flag.
C23_Witness ==
    /\ DOMAIN renders = {<<"1">>, <<"2">>}
    /\ renders[<<"2">>].before = {<<"1">>}
    /\ renders[<<"1">>].flag /\ renders[<<"2">>].flag
    /\ HasArgLine(FirstText(<<"1">>)) /\ HasArgLine(FirstText(<<"2">>))

\* the lines of a text that begin with the given words
LinesWith(text, prefix) ==
    {i \in 1..Len(SplitLines(text)) : HasPrefix(SplitLines(text)[i], prefix)}

\* C26: every file written into a version directory that has a line
\* FROM ${REGISTRY}/... has a line ARG REGISTRY= before the first of them.
C26_ArgBeforeFromInEveryFile ==
    \A v \in DOMAIN renders \ {SourceName} :
        \A n \in DOMAIN fsys[v].files :
            LinesWith(fsys[v].files[n].text, TxtFrom \o TxtRegistryPath) # {} =>
                \E i \in LinesWith(fsys[v].files[n].text, TxtArgRegistry) :
                    i < MinOf(LinesWith(fsys[v].files[n].text, TxtFrom \o TxtRegistryPath))

\* C30: the source directory of the image is never removed or emptied.
C30_SourceDirKept ==
    SourceName \in DOMAIN gen0.fsys =>
        /\ SourceName \in DOMAIN fsys
        /\ fsys[SourceName] = gen0.fsys[SourceName]

====
